---- MODULE Spec2Model ----
(***************************************************************************)
(* A model of the cricket server's scheduler and device-driver fabric:     *)
(* the TimedHeap worker, the Device (Enqueue, dispatch goroutine, paced    *)
(* Execute), the IDSet producer/consumer and the lease broker.             *)
(*                                                                         *)
(* Time is counted in milliseconds; the zero time.Time is 0 and the clock  *)
(* starts long after it.  Each subsystem has its own specification over    *)
(* the shared variable tuple; the variables of the other subsystems stay   *)
(* at their initial values.                                                *)
(***************************************************************************)
EXTENDS Integers, Sequences, FiniteSets, Bags, TLC

\* ------------------------------------------------------------------------
\* Bounds of the model.

\* Number of times the clock is advanced.
MaxTicks == 2

\* Number of Enqueue calls made on the device from outside its goroutine
\* (the "top half").
MaxEnqueues == 2

\* Number of Add calls made on the stand-alone TimedHeap.
MaxAdds == 3

\* Number of Launch calls made on the IDSet.
MaxLaunches == 2

\* Number of Add calls made on the IDSet.
MaxIDAdds == 2

\* Number of messages sent to the lease broker that its callers should not
\* send: an add for a client announced before, a return for an ID that no
\* draining effect holds.
MaxMisuses == 1

\* ------------------------------------------------------------------------
\* State.

VARIABLES
    now,        \* the wall clock, time.Now()
    ticks,      \* number of times the clock has been advanced
    \* TimedHeap
    impl,       \* TimedHeap.impl: the heapImpl array (0-based in Go, 1-based here)
    hpc,        \* where TimedHeap.thread is: "select1", "select2", "stopped"
    poppedMsg,  \* thread's local poppedMsg while in the second select
    \* history of the stand-alone TimedHeap
    nAdded,     \* number of Add calls the worker has received
    arrivedAt,  \* msg -> number of deliveries made before the worker received it
    delivered,  \* the items sent on "out", in order, with the time of the send
    races,      \* the lost-delivery races: an Add received in the second select
    \* Device
    timestamps, \* Device.timestamps: name -> time (0 is the zero time)
    cancelled,  \* the contexts whose Err() is non-nil
    exec,       \* the Request.Execute invocations in progress
    \* history of the Device
    nEnq,       \* number of top-half Enqueue calls
    lastEnq,    \* what the last Enqueue call read and computed
    lastReturn, \* time at which the last HTTP call returned (0: none yet)
    lastRecv,   \* what the device goroutine did with the requests it received
    \* idSet
    ids,        \* idSet.ids
    closed,     \* idSet.closed
    listeners,  \* idSet.listeners: the channel of Launch call L is called L
    chClosed,   \* the listener channels that have been closed
    sending,    \* the Add call that holds clientMu: its ids and how far the
                \* two nested send loops have come
    launch,     \* Launch call -> where it is, its snapshot, its ctxDone
    ctxCancelled, \* the Launch calls whose ctx has been cancelled
    closers,    \* number of "go is.Close()" goroutines that have not run yet
    \* history of the idSet
    nIDAdds,    \* number of Add calls made
    expected,   \* Launch call -> ID -> how often the ID was in the set when
                \* the call registered or has been accepted by Add since
    fStarted,   \* Launch call -> ID -> number of "go f(id)" made
    \* lease broker
    Leases,     \* the leases given to lease.Assign before startup, one per
                \* holder
    broker,     \* the broker struct, its holders included
    effects,    \* the effects Holder.Run has started and that still hold IDs,
                \* a bag
    fatal,      \* "" or the log.Fatalf / log.Panicf that ended the process
    \* history of the lease broker
    nMisuses,   \* number of repeated add and stray return messages handled
    \* Effect.run and DrainQueue
    drain,      \* where Effect.run is, and DrainQueue's clients, draining
                \* and toDrain
    devices,    \* ID -> the DrainQueue request of that device
    ticker,     \* a tick waits in the channel of time.Tick(time.Second)
    \* history of DrainQueue
    returned,   \* the IDs passed to lease.ReturnClients, in order
    \* the sound effect "loop"
    sound,      \* where loop.Run is, its ctx, its parameters and file set
    \* history of the sound effect
    plays,      \* the Plays loop.Run has enqueued, each with the time of
                \* the PickCarefully call that made it
    picked,     \* the last PickCarefully call: its arguments, the file it
                \* picked first and the Play it returned
    \* package client
    data,       \* data.devices, and what addClientMessage.handle has
                \* created, enqueued and sent so far
    \* lease.New
    leaseNew,   \* a call of lease.New: its Config, and the Lease and the
                \* error it returned
    \* Player
    player,     \* Player.effects: the baseWeight and the weight of each
                \* effect; and the launches Player.start has made
    \* WeightedSet
    ws,         \* a WeightedSet: its members and sum, and the unchosen and
                \* chosen slices and the sum of a Slice call
    \* the sound effect "storm"
    storm,      \* where storm.Run is, its ctx and snapshot, the timestamps
                \* of the devices it enqueues on, and its last Play
    \* the sound effect "nonrandom"
    nonrandom,  \* where nonrandom.Run is, the slice of the fileset, and the
                \* files it has enqueued, in order
    \* the sound effect "shuffle"
    shuffle     \* where Effect.run and shuffle.Run are, the snapshot that
                \* Remove is given, and what the f goroutines have done

clockVars == <<now, ticks>>
heapVars == <<impl, hpc, poppedMsg>>
heapHist == <<nAdded, arrivedAt, delivered, races>>
devVars == <<timestamps, cancelled, exec>>
devHist == <<nEnq, lastEnq, lastReturn, lastRecv>>
idSetVars == <<ids, closed, listeners, chClosed, sending, launch, ctxCancelled,
               closers>>
idSetHist == <<nIDAdds, expected, fStarted>>
leaseVars == <<broker, effects, fatal>>
leaseHistVars == <<nMisuses>>
leaseConf == <<Leases>>
drainVars == <<drain, devices, ticker, returned>>
soundVars == <<sound, plays, picked>>
appVars == <<soundVars, data, leaseNew, player, ws, storm, nonrandom, shuffle>>
vars == <<clockVars, heapVars, heapHist, devVars, devHist, idSetVars, idSetHist,
          leaseConf, leaseVars, leaseHistVars, drainVars, appVars>>

\* What the TimedHeap and the Device, the idSet and the lease broker leave
\* alone.
outsideDevice == <<idSetVars, idSetHist, leaseConf, leaseVars, leaseHistVars,
                   drainVars, appVars>>
outsideIDSet == <<clockVars, heapVars, heapHist, devVars, devHist,
                  leaseConf, leaseVars, leaseHistVars, drainVars, appVars>>
outsideLease == <<heapVars, heapHist, devVars, devHist, idSetVars, idSetHist,
                  leaseConf, drainVars, appVars>>
outsideDrain == <<clockVars, heapVars, heapHist, devVars, devHist,
                  leaseConf, leaseVars, leaseHistVars, appVars>>

\* ------------------------------------------------------------------------
\* The clock.

Steps == {10}

\* The readyAt of an Add, relative to now.
Offsets == {-10, 0, 10}

Max(a, b) == IF a >= b THEN a ELSE b

Min(a, b) == IF a <= b THEN a ELSE b

\* ------------------------------------------------------------------------
\* heapImpl and container/heap, on a sequence h; i and j are Go's 0-based
\* indices.

\* Less with the comparison turned round.
LessReversed(h, i, j) == h[i + 1].earliest > h[j + 1].earliest

\* heapImpl.Less
Less(h, i, j) == h[i + 1].earliest < h[j + 1].earliest

\* heapImpl.Swap
Swap(h, i, j) == [h EXCEPT ![i + 1] = h[j + 1], ![j + 1] = h[i + 1]]

\* Go's (j - 1) / 2 truncates toward zero.
Parent(j) == IF j = 0 THEN 0 ELSE (j - 1) \div 2

RECURSIVE up(_, _)
up(h, j) ==
    LET i == Parent(j)
    IN  IF i = j \/ ~Less(h, j, i) THEN h ELSE up(Swap(h, i, j), i)

RECURSIVE down(_, _, _)
down(h, i, n) ==
    LET j1 == 2 * i + 1
        j2 == j1 + 1
        j  == IF j2 < n /\ Less(h, j2, j1) THEN j2 ELSE j1
    IN  IF j1 >= n THEN h
        ELSE IF ~Less(h, j, i) THEN h
        ELSE down(Swap(h, i, j), j, n)

\* TimedHeap.push: heap.Push(h.impl, msg)
push(h, msg) == up(Append(h, msg), Len(h))

\* The array after heap.Pop: swap first and last, sift down, drop the last.
popRest(h) ==
    LET n == Len(h) - 1
    IN  SubSeq(down(Swap(h, 0, n), 0, n), 1, n)

\* TimedHeap.pop: the message heap.Pop returns (the former root).
pop(h) == h[1]

\* heapImpl.earliest
earliest(h) == h[1].earliest

\* ready that fires as soon as the heap holds a message.
readyNoWait(h) == Len(h) > 0

\* TimedHeap.ready: the waitFor channel of the earliest message has fired.
ready(h) == Len(h) > 0 /\ earliest(h) <= now

\* Time passes: by a short step, or up to the moment a timer somebody waits
\* on fires (the earliest message of the heap, the next allowed Execute).
Tick ==
    /\ ticks < MaxTicks
    /\ ticks' = ticks + 1
    /\ \/ \E s \in Steps : now' = now + s
       \/ /\ Len(impl) > 0
          /\ earliest(impl) > now
          /\ now' = earliest(impl)
       \/ /\ timestamps["nextExecute"] > now
          /\ now' = timestamps["nextExecute"]
    /\ UNCHANGED <<heapVars, heapHist, devVars, devHist>>
    /\ UNCHANGED outsideDevice

\* ------------------------------------------------------------------------
\* TimedHeap.thread.  ThreadRecv is "case msg := <-in" of either select,
\* ThreadReady is "case <-h.ready()" followed by the pop, ThreadSend is
\* "case out <- poppedMsg.msg", ThreadStop is "case <-h.stopCh".

NoMsg == [msg |-> 0, earliest |-> 0]

\* The worker's receive that forgets the popped message in the second select.
ThreadRecvDropsPopped(msg) ==
    \/ /\ hpc = "select1"
       /\ impl' = push(impl, msg)
       /\ UNCHANGED <<hpc, poppedMsg>>
    \/ /\ hpc = "select2"
       /\ impl' = push(impl, msg)
       /\ hpc' = "select1"
       /\ poppedMsg' = NoMsg

\* The worker's receive that forgets the new message in the second select.
ThreadRecvDropsNew(msg) ==
    \/ /\ hpc = "select1"
       /\ impl' = push(impl, msg)
       /\ UNCHANGED <<hpc, poppedMsg>>
    \/ /\ hpc = "select2"
       /\ impl' = push(impl, poppedMsg)
       /\ hpc' = "select1"
       /\ poppedMsg' = NoMsg

\* A worker whose second select has no "case msg := <-in".
ThreadRecvFirstSelectOnly(msg) ==
    /\ hpc = "select1"
    /\ impl' = push(impl, msg)
    /\ UNCHANGED <<hpc, poppedMsg>>

ThreadRecv(msg) ==
    \/ /\ hpc = "select1"
       /\ impl' = push(impl, msg)
       /\ UNCHANGED <<hpc, poppedMsg>>
    \/ /\ hpc = "select2"
       /\ impl' = push(push(impl, msg), poppedMsg)
       /\ hpc' = "select1"
       /\ poppedMsg' = NoMsg

ThreadReady ==
    /\ hpc = "select1"
    /\ ready(impl)
    /\ poppedMsg' = pop(impl)
    /\ impl' = popRest(impl)
    /\ hpc' = "select2"

ThreadSend ==
    /\ hpc = "select2"
    /\ hpc' = "select1"
    /\ poppedMsg' = NoMsg
    /\ UNCHANGED impl

ThreadStop ==
    /\ hpc \in {"select1", "select2"}
    /\ hpc' = "stopped"
    /\ UNCHANGED <<impl, poppedMsg>>

\* ------------------------------------------------------------------------
\* Device: the names of its timestamps and what an idle device looks like.

StampNames == {"endOfAdmin", "endOfLight", "endOfSound",
               "lastFailure", "lastSuccess", "nextExecute", "lastVoltage"}

NoEnq == [n |-> 0]

\* ------------------------------------------------------------------------
\* idSet: the IDs, the Launch calls and what a new idSet looks like.

IDs == {"a", "b"}

Launches == 1..MaxLaunches

\* No Add call holds clientMu.
NoSend == [ids |-> <<>>, li |-> 0, k |-> 0]

\* A Launch call that has not been made yet.
NoLaunch == [pc |-> "idle", snap |-> <<>>, nSnap |-> 0, ctxDone |-> TRUE]

\* types.NewIDSetProducer, with no call made on it.
NewIDSetProducer ==
    /\ ids = <<>>
    /\ closed = FALSE
    /\ listeners = <<>>
    /\ chClosed = {}
    /\ sending = NoSend
    /\ launch = [L \in Launches |-> NoLaunch]
    /\ ctxCancelled = {}
    /\ closers = 0
    /\ nIDAdds = 0
    /\ expected = [L \in Launches |-> [id \in IDs |-> 0]]
    /\ fStarted = [L \in Launches |-> [id \in IDs |-> 0]]

\* ------------------------------------------------------------------------
\* Lease broker: the leases of its holders and what a new broker looks like.

\* holder.is == nil, and a types.NewIDSetProducer.
NilSet == [nil |-> TRUE, ids |-> <<>>, closed |-> FALSE]

NewSet == [nil |-> FALSE, ids |-> <<>>, closed |-> FALSE]

\* A configuration: the leases given to lease.Assign before startup, one
\* per holder.  Fractions are counted in 1/10000; fleetFraction is the set
\* of values the lease's random variable can return; 0 stands for no
\* maxClients and no maxFleetFraction.

\* Leases whose fractions add up to the whole fleet; the third holder has
\* weight 0.
WholeFleet ==
    <<[weight |-> 2, fleetFraction |-> {10000}, minClients |-> 1,
       maxClients |-> 0, maxFleetFraction |-> 7000],
      [weight |-> 1, fleetFraction |-> {3000}, minClients |-> 1,
       maxClients |-> 1, maxFleetFraction |-> 0],
      [weight |-> 0, fleetFraction |-> {5000}, minClients |-> 1,
       maxClients |-> 0, maxFleetFraction |-> 0]>>

\* Leases whose fractions add up to less than the whole fleet; the first
\* holder starts with two clients.
PartOfFleet ==
    <<[weight |-> 2, fleetFraction |-> {5000}, minClients |-> 2,
       maxClients |-> 0, maxFleetFraction |-> 0],
      [weight |-> 1, fleetFraction |-> {3000}, minClients |-> 1,
       maxClients |-> 1, maxFleetFraction |-> 0],
      [weight |-> 1, fleetFraction |-> {2000, 1700}, minClients |-> 1,
       maxClients |-> 0, maxFleetFraction |-> 0]>>

Holders == 1..Len(Leases)

\* lease.newHolder
newHolder == [is |-> NilSet, targetFraction |-> 0, targetClientCount |-> 0,
              initTime |-> "old", started |-> FALSE]

\* lease.newBroker, followed by an Assign for every lease.
newBroker ==
    [locations |-> {}, leased |-> <<>>, unallocated |-> <<>>,
     fleetSize |-> 0, leasedCount |-> 0, leasedFraction |-> 0,
     holders |-> [h \in Holders |-> newHolder]]

\* The broker of the given leases.
BrokerWith(leases) ==
    /\ Leases = leases
    /\ broker = newBroker
    /\ effects = EmptyBag
    /\ fatal = ""
    /\ nMisuses = 0

BrokerIdle == BrokerWith(WholeFleet)

\* A device no DrainQueue request has been enqueued on.
NoDrainRequest == [st |-> "none", wait |-> 0, outcome |-> "none", delay |-> 0,
                   acks |-> 0]

\* An effect whose algorithm runs: Effect.run is in alg.Run.
NoEffect ==
    /\ drain = [pc |-> "running", clients |-> <<>>, draining |-> <<>>,
                toDrain |-> 0]
    /\ devices = [id \in IDs |-> NoDrainRequest]
    /\ ticker = FALSE
    /\ returned = <<>>

\* The zero Play, "Play{}".
NoPlay == [file |-> 0, reps |-> 0, delay |-> 0]

\* PickCarefully has not been called.
NoPick == [n |-> 0, at |-> 0, reps |-> 0, first |-> 0, play |-> NoPlay]

\* No sound effect "loop" runs.
NoLoop ==
    /\ sound = [pc |-> "returned", deadline |-> 0, ctxDone |-> FALSE,
                files |-> {}, delay |-> 0, wake |-> 0]
    /\ plays = <<>>
    /\ picked = NoPick

\* types.ValidLeaseTypes.
LeaseTypes == {"sound", "light"}

\* package client after init: data.devices is empty, no announcement has
\* been handled.
NoClients ==
    data = [devices |-> <<>>, started |-> [id \in IDs |-> 0],
            seeds |-> [id \in IDs |-> <<>>],
            adds |-> [lt \in LeaseTypes |-> <<>>],
            n |-> 0, last |-> <<>>]

\* The nil *Lease.
NilLease == [nil |-> TRUE]

\* lease.New has not been called.
NoLeaseNew == leaseNew = [pc |-> "none", c |-> <<>>, l |-> NilLease, err |-> ""]

\* No Player has been started.
NoPlayer == player = [effects |-> <<>>, n |-> 0, last |-> <<>>, fails |-> <<>>]

\* weightedset.New.
NoWeightedSet ==
    ws = [pc |-> "new", members |-> <<>>, sum |-> 0, unchosen |-> <<>>,
          chosen |-> <<>>, left |-> 0, draws |-> 0, zero |-> 0]

\* No sound effect "storm" runs.
NoStorm ==
    storm = [pc |-> "returned", deadline |-> 0, snapshot |-> <<>>, i |-> 0,
             delay |-> 0, stamps |-> <<>>, last |-> <<>>, n |-> 0]

\* No sound effect "nonrandom" runs.
NoNonrandom == nonrandom = [pc |-> "returned", set |-> <<>>, enqueued |-> <<>>]

\* No sound effect "shuffle" runs.
NoShuffle == shuffle = [pc |-> "none", snap |-> <<>>, looped |-> <<>>, byF |-> <<>>, byRun |-> <<>>]

\* The parts of the server outside the device, the idSet, the broker and
\* the effect are not in use.
AppIdle == NoShuffle /\ NoNonrandom /\ NoStorm /\ NoWeightedSet /\ NoPlayer /\ NoLeaseNew /\ NoLoop /\ NoClients

\* The device goroutine has received nothing yet.
NoRecv == [ctxErr |-> FALSE, executed |-> FALSE, discarded |-> FALSE]

\* ------------------------------------------------------------------------
\* The stand-alone TimedHeap[int] with its callers: Add, a consumer reading
\* "out", Stop.

Msgs(h) == {h[k].msg : k \in 1..Len(h)}

\* TimedHeap.Add(msg, earliest), received by the worker.
Add(t) ==
    /\ nAdded < MaxAdds
    /\ LET m == [msg |-> nAdded + 1, earliest |-> t]
       IN  /\ ThreadRecv(m)
           /\ nAdded' = nAdded + 1
           /\ arrivedAt' = [arrivedAt EXCEPT ![m.msg] = Len(delivered)]
           /\ races' = IF hpc = "select2"
                       THEN races \cup {[new |-> m.msg, tNew |-> t,
                                         pending |-> poppedMsg.msg,
                                         tPending |-> poppedMsg.earliest]}
                       ELSE races
    /\ UNCHANGED <<clockVars, delivered, devVars, devHist>>
    /\ UNCHANGED outsideDevice

\* The timer of the earliest message fires and the worker pops it.
Ready ==
    /\ ThreadReady
    /\ UNCHANGED <<clockVars, heapHist, devVars, devHist>>
    /\ UNCHANGED outsideDevice

\* The consumer receives from "out".
Consume ==
    /\ ThreadSend
    /\ delivered' = Append(delivered,
                           [msg |-> poppedMsg.msg, earliest |-> poppedMsg.earliest,
                            at |-> now])
    /\ UNCHANGED <<clockVars, nAdded, arrivedAt, races, devVars, devHist>>
    /\ UNCHANGED outsideDevice

\* TimedHeap.Stop
Stop ==
    /\ ThreadStop
    /\ UNCHANGED <<clockVars, heapHist, devVars, devHist>>
    /\ UNCHANGED outsideDevice

\* The clock starts long after the zero time, as the wall clock does.
ClockInit ==
    /\ now = 1000
    /\ ticks = 0

HeapHistInit ==
    /\ nAdded = 0
    /\ arrivedAt = [m \in 1..(MaxAdds + 1) |-> 0]
    /\ delivered = <<>>
    /\ races = {}

\* A device that has not been created.
DeviceIdle ==
    /\ timestamps = [n \in StampNames |-> 0]
    /\ cancelled = {}
    /\ exec = {}
    /\ nEnq = 0
    /\ lastEnq = NoEnq
    /\ lastReturn = 0
    /\ lastRecv = NoRecv

\* timedheap.New followed by Start.
InitHeap ==
    /\ ClockInit
    /\ impl = <<>>
    /\ hpc = "select1"
    /\ poppedMsg = NoMsg
    /\ HeapHistInit
    /\ DeviceIdle
    /\ NewIDSetProducer
    /\ BrokerIdle
    /\ NoEffect
    /\ AppIdle

NextHeap ==
    \/ Tick
    \/ \E o \in Offsets : Add(now + o)
    \/ Ready
    \/ Consume
    \/ Stop

SpecHeap == InitHeap /\ [][NextHeap]_vars

\* ------------------------------------------------------------------------
\* Requests.  A request is a record [kind, dur]; dur stands for what
\* its Duration() returns.

postGetURLDelay == 30

voltageUpdateDelay == 60000

\* Request.Type
Type(req) ==
    CASE req.kind \in {"Play", "SetVolume", "Pause", "Unpause", "Stop"} -> "Sound"
      [] req.kind = "Blink" -> "Light"
      [] req.kind \in {"Ping", "KeepVoltageUpdated", "DrainQueue"} -> "Admin"

\* Request.Duration
Duration(req) == req.dur

PlayReq == [kind |-> "Play", dur |-> 20]

BlinkReq == [kind |-> "Blink", dur |-> 20]

KeepVoltageUpdatedReq == [kind |-> "KeepVoltageUpdated", dur |-> 0]

StopReq == [kind |-> "Stop", dur |-> 0]

SetVolumeReq == [kind |-> "SetVolume", dur |-> 0]

\* addClientMessage.handle for a new client: the requests it enqueues once
\* the device is started, in order, all under the background context, with
\* no delay, FromNow.
SeedRequests == <<StopReq, SetVolumeReq, KeepVoltageUpdatedReq>>

\* The Enqueue calls made from the top half: Plays and a Blink by an effect,
\* under the effect's context (client.EnqueueAfterDelay and
\* EnqueueAfterSoundEnds), and the voltage poll by addClientMessage.handle,
\* under the background context.
TopHalfCalls ==
    {[req |-> PlayReq, ctx |-> "effect", delay |-> 10, fromWhen |-> "FromNow"],
     [req |-> PlayReq, ctx |-> "effect", delay |-> 0, fromWhen |-> "FromEnd"],
     [req |-> PlayReq, ctx |-> "effect", delay |-> 10, fromWhen |-> "FromEnd"],
     [req |-> BlinkReq, ctx |-> "effect", delay |-> 0, fromWhen |-> "FromNow"],
     [req |-> KeepVoltageUpdatedReq, ctx |-> "Background", delay |-> 0,
      fromWhen |-> "FromNow"]}

\* ------------------------------------------------------------------------
\* Device.Enqueue

\* The stamp of a request type that is not its own.
EndStampNameSoundForAll(ty) == "endOfSound"

\* The switch on req.Type().
EndStampName(ty) ==
    CASE ty = "Sound" -> "endOfSound"
      [] ty = "Light" -> "endOfLight"
      [] ty = "Admin" -> "endOfAdmin"

\* endTime: the stored stamp, or now when none has been stored.
EndTime(stamps, name, t) == IF stamps[name] = 0 THEN t ELSE stamps[name]

\* FromEnd handled as FromNow.
EarliestAlwaysFromNow(t, endTime, delay, fromWhen) == t + delay

\* The switch on fromWhen.
Earliest(t, endTime, delay, fromWhen) ==
    CASE fromWhen = "FromNow" -> t + delay
      [] fromWhen = "FromEnd" -> endTime + delay

\* The timestamps after Enqueue(ctx, req, delay, fromWhen) at time t.
EnqueueStamps(stamps, req, delay, fromWhen, t) ==
    LET name        == EndStampName(Type(req))
        endTime     == EndTime(stamps, name, t)
        thisEndTime == Earliest(t, endTime, delay, fromWhen) + Duration(req)
    IN  IF endTime < thisEndTime
        THEN [stamps EXCEPT ![name] = endTime]
        ELSE stamps

\* The message Enqueue hands to timedHeap.Add.
EnqueueMsg(stamps, ctx, req, delay, fromWhen, t) ==
    LET name == EndStampName(Type(req))
    IN  [msg |-> [req |-> req, ctx |-> ctx],
         earliest |-> Earliest(t, EndTime(stamps, name, t), delay, fromWhen)]

\* What an Enqueue call read and computed, for the record.
EnqueueRecord(stamps, req, delay, fromWhen, t) ==
    [n |-> 1, type |-> Type(req), dur |-> Duration(req), delay |-> delay,
     fromWhen |-> fromWhen, at |-> t,
     before |-> [x \in {"endOfAdmin", "endOfLight", "endOfSound"} |-> stamps[x]],
     earliest |-> EnqueueMsg(stamps, "", req, delay, fromWhen, t).earliest]

\* Device.Enqueue, called from the top half.
EnqueueCall(ctx, req, delay, fromWhen) ==
    /\ nEnq' = nEnq + 1
    /\ timestamps' = EnqueueStamps(timestamps, req, delay, fromWhen, now)
    /\ ThreadRecv(EnqueueMsg(timestamps, ctx, req, delay, fromWhen, now))
    /\ lastEnq' = EnqueueRecord(timestamps, req, delay, fromWhen, now)
    /\ UNCHANGED <<clockVars, heapHist, cancelled, exec, lastReturn, lastRecv>>
    /\ UNCHANGED outsideDevice

\* An effect calls Enqueue (client.EnqueueAfterDelay, EnqueueAfterSoundEnds).
Enqueue(ctx, req, delay, fromWhen) ==
    /\ nEnq < MaxEnqueues
    /\ EnqueueCall(ctx, req, delay, fromWhen)

\* The effect's context is cancelled (its deadline passes, or Effect.run
\* returns).
CancelCtx ==
    /\ "effect" \notin cancelled
    /\ cancelled' = cancelled \cup {"effect"}
    /\ UNCHANGED <<clockVars, heapVars, heapHist, timestamps, exec, devHist>>
    /\ UNCHANGED outsideDevice

\* ------------------------------------------------------------------------
\* The device goroutine of Device.Start and Device.Execute.

\* A goroutine per request: the loop takes the next request at once.
AlwaysIdle == TRUE

\* The device goroutine is at "for rwc := range in".
Idle == exec = {}

\* No request counts as expired.
ExpiredNever(rwc) == FALSE

\* rwc.ctx.Err() != nil
Expired(rwc) == rwc.ctx \in cancelled

\* The device goroutine receives a request from the heap; an expired one is
\* discarded, any other one is executed.
DeviceRecv ==
    /\ Idle
    /\ ThreadSend
    /\ IF Expired(poppedMsg.msg)
       THEN UNCHANGED exec
       ELSE exec' = exec \cup {[rwc |-> poppedMsg.msg, pc |-> "execute",
                               started |-> 0, prevReturn |-> 0]}
    /\ lastRecv' = [ctxErr |-> poppedMsg.msg.ctx \in cancelled,
                    executed |-> ~Expired(poppedMsg.msg),
                    discarded |-> lastRecv.discarded \/ Expired(poppedMsg.msg)]
    /\ UNCHANGED <<clockVars, heapHist, timestamps, cancelled,
                   nEnq, lastEnq, lastReturn>>
    /\ UNCHANGED outsideDevice

\* Device.Execute up to the HTTP call: wait until nextExecute, then send.
StartHTTP(e) ==
    /\ e.pc = "execute"
    /\ now >= timestamps["nextExecute"]
    /\ exec' = (exec \ {e}) \cup
               {[e EXCEPT !.pc = "http", !.started = now, !.prevReturn = lastReturn]}
    /\ UNCHANGED <<clockVars, heapVars, heapHist, timestamps, cancelled, devHist>>
    /\ UNCHANGED outsideDevice

\* The timestamps after getURLFailure at time t.
FailureStamps(stamps, ctx, t) ==
    IF ctx \notin cancelled
    THEN [stamps EXCEPT !["lastFailure"] = t,
                        !["nextExecute"] = stamps["lastSuccess"] + postGetURLDelay]
    ELSE stamps

\* The timestamps after a successful HTTP call at time t.
SuccessStamps(stamps, t) ==
    [stamps EXCEPT !["lastSuccess"] = t, !["nextExecute"] = t + postGetURLDelay]

\* A KeepVoltageUpdated that enqueues itself again on success only.
enqueuesItselfOnSuccess(req, outcome) ==
    req.kind = "KeepVoltageUpdated" /\ outcome = "ok"

\* KeepVoltageUpdated.Execute calls d.Enqueue(ctx, r, voltageUpdateDelay,
\* device.FromNow) on each of its three ways out; no other request of the
\* device model enqueues itself.
enqueuesItself(req, outcome) == req.kind = "KeepVoltageUpdated"

\* The HTTP call returns (outcome: "ok", "error", or "garbage" for a body
\* that does not parse) and the request's Execute runs to its end.
\* KeepVoltageUpdated enqueues itself again whatever the outcome.
HTTPReturn(e, outcome) ==
    /\ e.pc = "http"
    /\ outcome = "garbage" => e.rwc.req.kind = "KeepVoltageUpdated"
    /\ exec' = exec \ {e}
    /\ lastReturn' = now
    /\ LET afterCall == IF outcome = "error"
                        THEN FailureStamps(timestamps, e.rwc.ctx, now)
                        ELSE SuccessStamps(timestamps, now)
           afterReq  == IF e.rwc.req.kind = "KeepVoltageUpdated" /\ outcome = "ok"
                        THEN [afterCall EXCEPT !["lastVoltage"] = now]
                        ELSE afterCall
       IN  IF enqueuesItself(e.rwc.req, outcome)
           THEN /\ timestamps' = EnqueueStamps(afterReq, e.rwc.req,
                                               voltageUpdateDelay, "FromNow", now)
                /\ ThreadRecv(EnqueueMsg(afterReq, e.rwc.ctx, e.rwc.req,
                                         voltageUpdateDelay, "FromNow", now))
                /\ lastEnq' = EnqueueRecord(afterReq, e.rwc.req, voltageUpdateDelay,
                                            "FromNow", now)
           ELSE /\ timestamps' = afterReq
                /\ UNCHANGED <<heapVars, lastEnq>>
    /\ UNCHANGED <<clockVars, heapHist, cancelled, nEnq, lastRecv>>
    /\ UNCHANGED outsideDevice

\* The timer of the earliest request fires and the heap worker pops it.
DeviceReady ==
    /\ ThreadReady
    /\ UNCHANGED <<clockVars, heapHist, devVars, devHist>>
    /\ UNCHANGED outsideDevice

\* device.New followed by Start.
InitDevice ==
    /\ ClockInit
    /\ impl = <<>>
    /\ hpc = "select1"
    /\ poppedMsg = NoMsg
    /\ HeapHistInit
    /\ DeviceIdle
    /\ NewIDSetProducer
    /\ BrokerIdle
    /\ NoEffect
    /\ AppIdle

NextDevice ==
    \/ Tick
    \/ \E c \in TopHalfCalls : Enqueue(c.ctx, c.req, c.delay, c.fromWhen)
    \/ CancelCtx
    \/ DeviceReady
    \/ DeviceRecv
    \/ \E e \in exec : StartHTTP(e)
    \/ \E e \in exec, outcome \in {"ok", "error", "garbage"} : HTTPReturn(e, outcome)

SpecDevice == InitDevice /\ [][NextDevice]_vars

\* ------------------------------------------------------------------------
\* A device from its creation by addClientMessage.handle: the handler
\* enqueues the seed requests, and only then does lease.AddClient make the
\* device known to the effects.

\* addClientMessage.handle, its next d.Enqueue call.
SeedEnqueue ==
    /\ nEnq < Len(SeedRequests)
    /\ EnqueueCall("Background", SeedRequests[nEnq + 1], 0, "FromNow")

\* The Enqueue call of the effect that holds the device on lease: a Play
\* after a delay (client.EnqueueAfterDelay).
EffectCalls == {c \in TopHalfCalls : c.req = PlayReq /\ c.fromWhen = "FromNow"}

EffectEnqueue(c) ==
    /\ nEnq >= Len(SeedRequests)
    /\ nEnq < Len(SeedRequests) + MaxEnqueues
    /\ EnqueueCall(c.ctx, c.req, c.delay, c.fromWhen)

NextPoll ==
    \/ Tick
    \/ SeedEnqueue
    \/ \E c \in EffectCalls : EffectEnqueue(c)
    \/ CancelCtx
    \/ DeviceReady
    \/ DeviceRecv
    \/ \E e \in exec : StartHTTP(e)
    \/ \E e \in exec, outcome \in {"ok", "error", "garbage"} : HTTPReturn(e, outcome)

SpecPoll == InitDevice /\ [][NextPoll]_vars

\* ------------------------------------------------------------------------
\* idSet: Add, Launch, Close and Remove, called by a producer and by
\* MaxLaunches consumers that run concurrently.

\* The lists of IDs a producer hands to Add.
AddArgs == {<<"a">>, <<"a", "b">>}

\* How often each ID occurs in a list.
Counts(s) == [id \in IDs |-> Cardinality({i \in 1..Len(s) : s[i] = id})]

Plus(c, d) == [id \in IDs |-> c[id] + d[id]]

Total(c) == c["a"] + c["b"]

\* clientMu is held by an Add call from its Lock to its return; every other
\* critical section is one step.
clientMuFree == sending = NoSend

\* The Launch calls that have appended their channel to listeners.
Registered == {listeners[i] : i \in 1..Len(listeners)}

\* A snapshot that copies nothing.
snapshotNothing(s) == <<>>

\* idSet.snapshotLocked: a copy of is.ids.
snapshotLocked(s) == s

\* An Add that never looks at is.closed.
refusesNever(isClosed_) == FALSE

\* idSet.Add: "if is.closed { return false }".
refuses(isClosed_) == isClosed_

\* idSet.Add up to its first send: it takes clientMu, refuses when the set
\* is closed, and appends the IDs otherwise.  With no listener it returns at
\* once.
IDSetAdd(arg) ==
    /\ nIDAdds < MaxIDAdds
    /\ clientMuFree
    /\ nIDAdds' = nIDAdds + 1
    /\ IF refuses(closed)
       THEN UNCHANGED <<ids, sending, expected>>
       ELSE /\ ids' = ids \o arg
            /\ sending' = IF listeners = <<>>
                          THEN NoSend
                          ELSE [ids |-> arg, li |-> 1, k |-> 1]
            /\ expected' = [L \in Launches |->
                               IF L \in Registered
                               THEN Plus(expected[L], Counts(arg))
                               ELSE expected[L]]
    /\ UNCHANGED <<closed, listeners, chClosed, launch, ctxCancelled, closers,
                   fStarted>>
    /\ UNCHANGED outsideIDSet

\* "ch <- c" in Add meets "case id, ok := <-ch" in the Launch call that owns
\* ch, which does "go f(id)".  After the last send of the last listener Add
\* releases clientMu and returns true.
IDSetSend ==
    /\ sending # NoSend
    /\ LET L  == listeners[sending.li]
           id == sending.ids[sending.k]
       IN  /\ launch[L].pc = "loop"
           /\ fStarted' = [fStarted EXCEPT ![L][id] = @ + 1]
           /\ sending' = IF sending.k < Len(sending.ids)
                         THEN [sending EXCEPT !.k = @ + 1]
                         ELSE IF sending.li < Len(listeners)
                         THEN [sending EXCEPT !.li = @ + 1, !.k = 1]
                         ELSE NoSend
    /\ UNCHANGED <<ids, closed, listeners, chClosed, launch, ctxCancelled,
                   closers, nIDAdds, expected>>
    /\ UNCHANGED outsideIDSet

\* idSet.Launch, its critical section: the channel is appended to listeners
\* and the snapshot is taken under one hold of clientMu.  The Launch calls
\* are numbered in the order in which they get clientMu.
Launch(L) ==
    /\ launch[L].pc = "idle"
    /\ L = Len(listeners) + 1
    /\ clientMuFree
    /\ listeners' = Append(listeners, L)
    /\ launch' = [launch EXCEPT ![L] = [pc |-> "snap",
                                        snap |-> snapshotLocked(ids),
                                        nSnap |-> Len(snapshotLocked(ids)),
                                        ctxDone |-> TRUE]]
    /\ expected' = [expected EXCEPT ![L] = Counts(ids)]
    /\ UNCHANGED <<ids, closed, chClosed, sending, ctxCancelled, closers,
                   nIDAdds, fStarted>>
    /\ UNCHANGED outsideIDSet

\* idSet.Launch: "go f(id)" for every ID of the snapshot, then the loop.
LaunchSnapshot(L) ==
    /\ launch[L].pc = "snap"
    /\ fStarted' = [fStarted EXCEPT ![L] = Plus(@, Counts(launch[L].snap))]
    /\ launch' = [launch EXCEPT ![L].pc = "loop", ![L].snap = <<>>]
    /\ UNCHANGED <<ids, closed, listeners, chClosed, sending, ctxCancelled,
                   closers, nIDAdds, expected>>
    /\ UNCHANGED outsideIDSet

\* idSet.Launch: "case id, ok := <-ch" with ok false; Launch returns.
LaunchChClosed(L) ==
    /\ launch[L].pc = "loop"
    /\ L \in chClosed
    /\ launch' = [launch EXCEPT ![L].pc = "returned"]
    /\ UNCHANGED <<ids, closed, listeners, chClosed, sending, ctxCancelled,
                   closers, nIDAdds, expected, fStarted>>
    /\ UNCHANGED outsideIDSet

\* idSet.Launch: "case <-ctxDone", which starts "go is.Close()" and sets
\* ctxDone to nil.
LaunchCtxDone(L) ==
    /\ launch[L].pc = "loop"
    /\ launch[L].ctxDone
    /\ L \in ctxCancelled
    /\ closers' = closers + 1
    /\ launch' = [launch EXCEPT ![L].ctxDone = FALSE]
    /\ UNCHANGED <<ids, closed, listeners, chClosed, sending, ctxCancelled,
                   nIDAdds, expected, fStarted>>
    /\ UNCHANGED outsideIDSet

\* The ctx handed to Launch call L is cancelled.  Launch looks at its ctx in
\* its loop only, so a ctx cancelled earlier is seen there as well.
CancelLaunch(L) ==
    /\ L \notin ctxCancelled
    /\ L \in Registered
    /\ ctxCancelled' = ctxCancelled \cup {L}
    /\ UNCHANGED <<ids, closed, listeners, chClosed, sending, launch, closers,
                   nIDAdds, expected, fStarted>>
    /\ UNCHANGED outsideIDSet

\* A Close that closes no channel.
CloseChannelsNone == chClosed

\* The channels that are closed once Close has returned.
CloseChannels == IF closed THEN chClosed ELSE chClosed \cup Registered

\* idSet.Close, run by a goroutine that Launch started.
IDSetCloseAsync ==
    /\ closers > 0
    /\ clientMuFree
    /\ closers' = closers - 1
    /\ closed' = TRUE
    /\ chClosed' = CloseChannels
    /\ UNCHANGED <<ids, listeners, sending, launch, ctxCancelled,
                   nIDAdds, expected, fStarted>>
    /\ UNCHANGED outsideIDSet

\* idSet.Close, called by a consumer (the effect, an f goroutine).
IDSetClose ==
    /\ clientMuFree
    /\ closed' = TRUE
    /\ chClosed' = CloseChannels
    /\ UNCHANGED <<ids, listeners, sending, launch, ctxCancelled, closers,
                   nIDAdds, expected, fStarted>>
    /\ UNCHANGED outsideIDSet

\* idSet.Remove(is.Snapshot()) on a closed set, as shuffle.Run calls it.
IDSetRemove ==
    /\ clientMuFree
    /\ closed
    /\ ids # <<>>
    /\ ids' = <<>>
    /\ UNCHANGED <<closed, listeners, chClosed, sending, launch, ctxCancelled,
                   closers, nIDAdds, expected, fStarted>>
    /\ UNCHANGED outsideIDSet

InitIDSet ==
    /\ ClockInit
    /\ impl = <<>>
    /\ hpc = "select1"
    /\ poppedMsg = NoMsg
    /\ HeapHistInit
    /\ DeviceIdle
    /\ NewIDSetProducer
    /\ BrokerIdle
    /\ NoEffect
    /\ AppIdle

NextIDSet ==
    \/ \E arg \in AddArgs : IDSetAdd(arg)
    \/ IDSetSend
    \/ \E L \in Launches : Launch(L)
    \/ \E L \in Launches : LaunchSnapshot(L)
    \/ \E L \in Launches : LaunchChClosed(L)
    \/ \E L \in Launches : LaunchCtxDone(L)
    \/ \E L \in Launches : CancelLaunch(L)
    \/ IDSetCloseAsync
    \/ IDSetClose
    \/ IDSetRemove

SpecIDSet == InitIDSet /\ [][NextIDSet]_vars

\* The goroutines of the idSet run on: a Launch call that can take a step
\* takes it, an Add that can send sends, a "go is.Close()" gets clientMu.
\* The producer and the consumers may stop calling at any time.
IDSetFairness ==
    /\ \A L \in Launches : /\ WF_vars(LaunchSnapshot(L))
                           /\ WF_vars(LaunchChClosed(L))
                           /\ WF_vars(LaunchCtxDone(L))
    /\ WF_vars(IDSetSend)
    /\ SF_vars(IDSetCloseAsync)

SpecIDSetFair == SpecIDSet /\ IDSetFairness

\* ------------------------------------------------------------------------
\* Effect.run from the return of its algorithm, DrainQueue, and the
\* DrainQueue request on each device.  Time is counted in seconds here, as
\* the time left until a request in a device heap is ready; the requests are
\* enqueued under context.Background(), which is never cancelled, so the
\* device goroutine executes each of them once it is ready.

\* transientDelay, in seconds.
transientDelay == 5

\* The lists of clients holder.addClients hands to the effect's IDSet: the
\* broker leases a client to one holder at a time.
NewClients ==
    {arg \in {<<"a">>, <<"b">>, <<"a", "b">>} :
        \A i \in 1..Len(arg), j \in 1..Len(ids) : arg[i] # ids[j]}

\* What the pending-depth call of DrainQueue.Execute can come to: an HTTP
\* error, a body that is no integer, a depth above 0, the depth 0.
Outcomes == {"error", "garbage", "nonzero", "zero"}

\* A request that acks whatever the depth.
AcksAlways(outcome) == TRUE

\* DrainQueue.Execute acks when the call succeeded, the body parsed and the
\* depth is 0.
Acks(outcome) == outcome = "zero"

\* The delay of the Enqueue call of DrainQueue.Execute when it does not ack.
retryDelay(outcome) == transientDelay

\* A drain loop that forgets the IDs it has returned.
toDrainKept(toDrain, draining) == toDrain

\* "toDrain -= len(draining)"
toDrainAfter(toDrain, draining) == toDrain - Len(draining)

\* device.Enqueue(ctx, req, delay, FromNow) of the DrainQueue request.
DrainEnqueue(d, delay) == [d EXCEPT !.st = "queued", !.wait = delay, !.delay = delay]

\* Effect.run: alg.Run returns; cancel() and is.Close().
EffectFinish ==
    /\ drain.pc = "running"
    /\ clientMuFree
    /\ closed' = TRUE
    /\ chClosed' = CloseChannels
    /\ drain' = [drain EXCEPT !.pc = "closed"]
    /\ UNCHANGED <<ids, listeners, sending, launch, ctxCancelled, closers,
                   idSetHist, devices, ticker, returned>>
    /\ UNCHANGED outsideDrain

\* Effect.run: DrainQueue(e.leaseType, is.Snapshot()) up to its loop: the
\* request is enqueued on every client with delay 0, the ticker is started
\* and toDrain is len(clients).
DrainQueueStart ==
    /\ drain.pc = "closed"
    /\ clientMuFree
    /\ LET clients == snapshotLocked(ids)
       IN  /\ drain' = [pc |-> IF Len(clients) > 0 THEN "loop" ELSE "done",
                        clients |-> clients, draining |-> <<>>,
                        toDrain |-> Len(clients)]
           /\ devices' = [id \in IDs |->
                             IF \E i \in 1..Len(clients) : clients[i] = id
                             THEN DrainEnqueue(devices[id], 0)
                             ELSE devices[id]]
    /\ ticker' = FALSE
    /\ UNCHANGED <<idSetVars, idSetHist, returned>>
    /\ UNCHANGED outsideDrain

\* A second passes: the ticker puts a tick in its channel unless one waits
\* there already, and every queued request is a second nearer to ready.
Second ==
    /\ drain.pc = "loop"
    /\ ticker' = TRUE
    /\ devices' = [id \in IDs |-> [devices[id] EXCEPT !.wait = Max(@ - 1, 0)]]
    /\ UNCHANGED <<idSetVars, idSetHist, drain, returned>>
    /\ UNCHANGED outsideDrain

\* The device goroutine runs DrainQueue.Execute on a request that is ready:
\* it either blocks in "r.Ack <- d.GetID()" or enqueues the request again.
DrainQueueExecute(id, outcome) ==
    /\ devices[id].st = "queued"
    /\ devices[id].wait = 0
    /\ devices' = [devices EXCEPT ![id] =
                      IF Acks(outcome)
                      THEN [@ EXCEPT !.st = "acking", !.outcome = outcome]
                      ELSE [DrainEnqueue(@, retryDelay(outcome))
                               EXCEPT !.outcome = outcome]]
    /\ UNCHANGED <<idSetVars, idSetHist, drain, ticker, returned>>
    /\ UNCHANGED outsideDrain

\* DrainQueue's loop: "case id := <-acks" meets the send of a request.
DrainRecvAck(id) ==
    /\ drain.pc = "loop"
    /\ devices[id].st = "acking"
    /\ devices' = [devices EXCEPT ![id].st = "done", ![id].acks = @ + 1]
    /\ drain' = [drain EXCEPT !.draining = Append(@, id)]
    /\ UNCHANGED <<idSetVars, idSetHist, ticker, returned>>
    /\ UNCHANGED outsideDrain

\* DrainQueue's loop: "case now = <-ticker"; lease.ReturnClients(draining),
\* toDrain goes down by len(draining), and the loop ends at toDrain = 0.
DrainTick ==
    /\ drain.pc = "loop"
    /\ ticker
    /\ ticker' = FALSE
    /\ returned' = returned \o drain.draining
    /\ LET left == toDrainAfter(drain.toDrain, drain.draining)
       IN  drain' = [drain EXCEPT !.draining = <<>>, !.toDrain = left,
                                  !.pc = IF left > 0 THEN "loop" ELSE "done"]
    /\ UNCHANGED <<idSetVars, idSetHist, devices>>
    /\ UNCHANGED outsideDrain

\* holder.addClients calls Add on the effect's IDSet, which no Launch
\* listens to.
DrainAdd(arg) ==
    /\ listeners = <<>>
    /\ IDSetAdd(arg)

InitDrain ==
    /\ ClockInit
    /\ impl = <<>>
    /\ hpc = "select1"
    /\ poppedMsg = NoMsg
    /\ HeapHistInit
    /\ DeviceIdle
    /\ NewIDSetProducer
    /\ BrokerIdle
    /\ NoEffect
    /\ AppIdle

NextDrain ==
    \/ \E arg \in NewClients : DrainAdd(arg)
    \/ EffectFinish
    \/ DrainQueueStart
    \/ Second
    \/ \E id \in IDs, outcome \in Outcomes : DrainQueueExecute(id, outcome)
    \/ \E id \in IDs : DrainRecvAck(id)
    \/ DrainTick

SpecDrain == InitDrain /\ [][NextDrain]_vars

\* The scheduler runs every goroutine that can take a step, the ticker goes
\* on, and every device reports a pending depth of 0 in the end.
DrainFairness ==
    /\ WF_vars(DrainQueueStart)
    /\ WF_vars(Second)
    /\ WF_vars(DrainTick)
    /\ \A id \in IDs : WF_vars(DrainRecvAck(id))
    /\ \A id \in IDs : SF_vars(DrainQueueExecute(id, "zero"))

SpecDrainFair == SpecDrain /\ DrainFairness

\* ------------------------------------------------------------------------
\* Lease broker (package lease): one broker with its holders, the effects
\* its holders run, and the add and return messages brokerThread handles.
\* A handler is a chain of functions on w = [b, effects, fatal]: the broker
\* struct, the effects started and the fatal error that ended the process
\* ("" for none).  Fractions are counted in
\* 1/10000.  The holders' "disabled" flag, a knob of the tests, stays false.
\* Of a holder's initTime the broker only asks whether it lies more than
\* staleHolderTime in the past: initTime is "old" when it does and "recent"
\* when it does not.

fullyLeasedFraction == 9999

\* The fraction 1.0.
One == fullyLeasedFraction + 1

\* The clients of the fleet, in the order in which mDNS discovers them.
ClientIDs == <<"c1", "c2", "c3">>

Range(s) == {s[i] : i \in 1..Len(s)}

\* The elements of s at the positions in P, in order.
RECURSIVE Keep(_, _)
Keep(s, P) ==
    IF s = <<>> THEN <<>>
    ELSE Keep(SubSeq(s, 1, Len(s) - 1), P)
             \o (IF Len(s) \in P THEN <<s[Len(s)]>> ELSE <<>>)

World == [b |-> broker, effects |-> effects, fatal |-> fatal]

\* holder.isDormant
isDormant(h) == h.targetClientCount = 0

\* holder.isStale
isStale(h) == isDormant(h) /\ h.initTime = "old"

\* holder.isClosed
isClosed(h) == ~h.is.nil /\ h.is.closed

\* holder.clientsWanted
clientsWanted(h) == IF h.is.nil THEN 0 ELSE h.targetClientCount - Len(h.is.ids)

\* holder.init
init(h, frac) == [is |-> NewSet, targetFraction |-> frac, targetClientCount |-> 0,
                  initTime |-> "recent", started |-> FALSE]

\* A reset that leaves the target count as it is.
resetKeepsCount(h) == [is |-> NilSet, targetFraction |-> 0,
                       targetClientCount |-> h.targetClientCount,
                       initTime |-> "recent", started |-> FALSE]

\* holder.reset
reset(h) == [is |-> NilSet, targetFraction |-> 0, targetClientCount |-> 0,
             initTime |-> "recent", started |-> FALSE]

\* The loop of broker.cleanHolders, from holder i on.
RECURSIVE cleanFrom(_, _)
cleanFrom(bk, i) ==
    IF i > Len(Leases) THEN bk
    ELSE LET h == bk.holders[i]
         IN  IF isClosed(h) \/ isStale(h)
             THEN cleanFrom([bk EXCEPT !.leasedFraction = @ - h.targetFraction,
                                       !.holders[i] = reset(h)], i + 1)
             ELSE cleanFrom(bk, i + 1)

\* A cleanHolders that leaves every holder as it is.
cleanHoldersSkipped(w) == w

\* broker.cleanHolders
cleanHolders(w) == IF w.fatal # "" THEN w ELSE [w EXCEPT !.b = cleanFrom(w.b, 1)]

\* WeightedSet: Add leaves out a member of weight 0; Slice returns the
\* members in the order the randomizer picks, which can be any order.
Slice(members) ==
    LET added == {h \in members : Leases[h].weight # 0}
    IN  {p \in [1..Cardinality(added) -> added] :
            \A i, j \in 1..Cardinality(added) : p[i] = p[j] => i = j}

\* What the leases' fleetFraction variables return when they are asked.
Draws ==
    {d \in [Holders -> UNION {Leases[h].fleetFraction : h \in Holders}] :
        \A h \in Holders : d[h] \in Leases[h].fleetFraction}

\* The second loop of broker.updateLeasedFraction, over the dormant holders
\* in the order of the slice.
RECURSIVE initEach(_, _, _)
initEach(bk, order, draw) ==
    IF order = <<>> THEN bk
    ELSE LET i    == Head(order)
             l    == Leases[i]
             frac == IF l.maxFleetFraction > 0
                     THEN Min(draw[i], l.maxFleetFraction)
                     ELSE draw[i]
             nb   == [bk EXCEPT !.holders[i] = init(@, frac),
                                !.leasedFraction = @ + frac]
         IN  IF nb.leasedFraction >= fullyLeasedFraction
             THEN nb
             ELSE initEach(nb, Tail(order), draw)

\* An updateLeasedFraction that hands a fraction to the first holder of the
\* slice only.
updateLeasedFractionFirst(w) ==
    IF w.fatal # "" \/ w.b.leasedFraction >= fullyLeasedFraction THEN {w}
    ELSE {[w EXCEPT !.b = initEach(w.b, SubSeq(order, 1, Min(1, Len(order))), draw)] :
              order \in Slice({h \in Holders : isDormant(w.b.holders[h])}),
              draw \in Draws}

\* broker.updateLeasedFraction: its outcomes, one for every order of the
\* slice and every value the fleet fractions are drawn at.
updateLeasedFraction(w) ==
    IF w.fatal # "" \/ w.b.leasedFraction >= fullyLeasedFraction THEN {w}
    ELSE {[w EXCEPT !.b = initEach(w.b, order, draw)] :
              order \in Slice({h \in Holders : isDormant(w.b.holders[h])}),
              draw \in Draws}

\* math.Round(num / den) for num >= 0: halves are rounded away from zero.
Round(num, den) == (2 * num + den) \div (2 * den)

\* holder.setTargetCount for holder i.
setTargetCount(w, i, newCount) ==
    IF newCount < w.b.holders[i].targetClientCount
    THEN [w EXCEPT !.fatal = "decreasing target client count"]
    ELSE [w EXCEPT !.b.holders[i].targetClientCount = newCount]

\* The loop of broker.updateTargetCount, from holder i on.
RECURSIVE targetFrom(_, _)
targetFrom(w, i) ==
    IF i > Len(Leases) \/ w.fatal # "" THEN w
    ELSE LET l == Leases[i]
             r == Round(w.b.holders[i].targetFraction * w.b.fleetSize, One)
             target == IF l.maxClients > 0 THEN Min(r, l.maxClients) ELSE r
         IN  targetFrom(setTargetCount(w, i, target), i + 1)

\* broker.updateTargetCount
updateTargetCount(w) == targetFrom(w, 1)

\* An effect that Holder.Run of holder h has started: it runs its algorithm
\* on the holder's IDSet, or it has closed the set and drains the IDs it
\* still has to return.
Running(h) == [h |-> h, phase |-> "running", ids |-> <<>>]

Draining(h, idl) == [h |-> h, phase |-> "draining", ids |-> idl]

\* Effect.run: the algorithm has returned; the effect closes its IDSet and
\* starts draining the IDs of its snapshot.
closeEffect(w, e) ==
    [w EXCEPT !.b.holders[e.h].is.closed = TRUE,
              !.effects = (@ (-) SetToBag({e}))
                              (+) SetToBag({Draining(e.h, w.b.holders[e.h].is.ids)})]

\* The effects of S close their IDSets while the broker is inside a handler.
RECURSIVE closeAll(_, _)
closeAll(w, S) ==
    IF S = {} \/ w.fatal # "" THEN w
    ELSE LET e == CHOOSE x \in S : TRUE
         IN  closeAll(closeEffect(w, e), S \ {e})

RunningEffects(es) == {e \in BagToSet(es) : e.phase = "running"}

\* A test that looks at the size of the set only.
startsAgain(h, i, count) == Len(h.is.ids) + count >= Leases[i].minClients

\* holder.addClients, its test after a successful Add of count clients to
\* holder i: Holder.Run is called now.
startsNow(h, i, count) ==
    ~h.started /\ Len(h.is.ids) + count >= Leases[i].minClients

\* A refusal that resets the holder and leaves leasedFraction as it is.
refusedKeepsFraction(w, i) ==
    [w EXCEPT !.b.holders[i] = reset(@)]

\* broker.assignClients, the branch for holder i whose closed producer has
\* refused the Add.
refused(w, i) ==
    [w EXCEPT !.b.leasedFraction = @ - w.b.holders[i].targetFraction,
              !.b.holders[i] = reset(@)]

\* An assignment that leaves the clients it hands out in unallocated.
unallocatedKept(s, count) == s

\* broker.assignClients: "b.unallocated = b.unallocated[count:]".
unallocatedFrom(s, count) == SubSeq(s, count + 1, Len(s))

\* The loop of broker.assignClients over the holders of the slice, with
\* holder.addClients: a closed producer refuses the Add; the first Add that
\* brings the set up to minClients calls Holder.Run.
RECURSIVE assignEach(_, _, _)
assignEach(w, order, available) ==
    IF order = <<>> THEN w
    ELSE LET i       == Head(order)
             h       == w.b.holders[i]
             count   == Min(clientsWanted(h), available)
             clients == SubSeq(w.b.unallocated, 1, count)
             run     == startsNow(h, i, count)
             given   == [w EXCEPT
                            !.b.holders[i].is.ids = @ \o clients,
                            !.b.holders[i].started = @ \/ run,
                            !.effects = IF run
                                        THEN @ (+) SetToBag({Running(i)})
                                        ELSE @,
                            !.b.leasedCount = @ + count,
                            !.b.unallocated = unallocatedFrom(@, count),
                            !.b.leased = [id \in DOMAIN @ \cup Range(clients) |-> TRUE]]
         IN  IF h.is.closed
             THEN assignEach(refused(w, i), Tail(order), available)
             ELSE IF available - count = 0
             THEN given
             ELSE assignEach(given, Tail(order), available - count)

\* broker.assignClients: its outcomes, one for every order of the slice.
assignClients(w) ==
    IF w.fatal # "" THEN {w}
    ELSE LET available == Len(w.b.unallocated)
         IN  IF w.b.fleetSize - w.b.leasedCount # available
             THEN {[w EXCEPT !.fatal = "available + leased != total"]}
             ELSE IF available = 0 THEN {w}
             ELSE {assignEach(w, order, available) :
                       order \in Slice({h \in Holders :
                                            clientsWanted(w.b.holders[h]) > 0})}

\* A return that puts the ID back without touching leasedCount.
returnOneKeepsCount(w, id) ==
    [w EXCEPT !.b.unallocated = Append(@, id)]

\* broker.returnClients, the body of its loop for an ID that passed the
\* two checks.
returnOne(w, id) ==
    [w EXCEPT !.b.leasedCount = @ - 1, !.b.unallocated = Append(@, id)]

\* The loop of broker.returnClients.
RECURSIVE returnEach(_, _)
returnEach(w, idl) ==
    IF idl = <<>> \/ w.fatal # "" THEN w
    ELSE LET id == Head(idl)
         IN  IF id \notin DOMAIN w.b.leased
             THEN [w EXCEPT !.fatal = "can't find client"]
             ELSE IF ~w.b.leased[id]
             THEN [w EXCEPT !.fatal = "returning invalid lease"]
             ELSE returnEach(returnOne(w, id), Tail(idl))

\* The running effects whose holder assignClients is about to offer clients.
Offered(w) ==
    {e \in RunningEffects(w.effects) :
        w.b.unallocated # <<>> /\ clientsWanted(w.b.holders[e.h]) > 0}

\* The calls that end both handlers: updateLeasedFraction, updateTargetCount
\* and assignClients.  Any of the running effects may close its IDSet before
\* assignClients offers it clients; for an effect that is offered none, that
\* is the same as closing once the handler is through.
rebalance(w) ==
    LET targeted == {updateTargetCount(u) : u \in updateLeasedFraction(w)}
        raced    == UNION {{closeAll(t, mid) : mid \in SUBSET Offered(t)} :
                           t \in targeted}
    IN  UNION {assignClients(r) : r \in raced}

\* broker.returnClients: the outcomes of handling a returnMessage.
returnClients(w, idl) == rebalance(cleanHolders(returnEach(w, idl)))

\* broker.addClient: the outcomes of handling an addMessage.
addClient(w, id) ==
    IF id \in DOMAIN w.b.leased
    THEN {[w EXCEPT !.fatal = "duplicate request to add"]}
    ELSE rebalance([w EXCEPT !.b.locations = @ \cup {id},
                             !.b.unallocated = Append(@, id),
                             !.b.fleetSize = @ + 1])

\* The handler has run to its end, or to the fatal error.
Handled(w) ==
    /\ broker' = w.b
    /\ effects' = w.effects
    /\ fatal' = w.fatal

\* The clients mDNS has not announced yet, the next one first.
Unannounced == SubSeq(ClientIDs, Cardinality(broker.locations) + 1, Len(ClientIDs))

\* The next client to be announced, if there is one.
FreshIDs == IF Unannounced = <<>> THEN {} ELSE {Head(Unannounced)}

\* The clients whose messages are sent once too often: the first of the
\* fleet, which is leased as soon as it is announced, and the last, which
\* may still be unallocated and never leased.
Repeated == {ClientIDs[1], ClientIDs[Len(ClientIDs)]} \cap broker.locations

\* brokerThread handles the addMessage of a new client.
AddClient(id) ==
    /\ fatal = ""
    /\ id \in FreshIDs
    /\ \E w \in addClient(World, id) : Handled(w)
    /\ UNCHANGED <<clockVars, leaseHistVars>>
    /\ UNCHANGED outsideLease

\* brokerThread handles an addMessage for a client the broker has been told
\* of before.
AddClientAgain(id) ==
    /\ fatal = ""
    /\ id \in broker.locations
    /\ nMisuses < MaxMisuses
    /\ nMisuses' = nMisuses + 1
    /\ \E w \in addClient(World, id) : Handled(w)
    /\ UNCHANGED clockVars
    /\ UNCHANGED outsideLease

\* effect.DrainQueue: on a tick of its ticker effect e returns the IDs that
\* have acked since the last tick (those at the positions P of the IDs it
\* still holds, none included), and brokerThread handles the returnMessage.
\* The effect is through when it has returned all its IDs.
EffectReturn(e, P) ==
    /\ fatal = ""
    /\ e.phase = "draining"
    /\ LET held == e.ids
           rest == Keep(held, (1..Len(held)) \ P)
           es   == IF rest = <<>>
                   THEN effects (-) SetToBag({e})
                   ELSE (effects (-) SetToBag({e})) (+) SetToBag({Draining(e.h, rest)})
       IN  \E w \in returnClients([World EXCEPT !.effects = es], Keep(held, P)) :
               Handled(w)
    /\ UNCHANGED <<clockVars, leaseHistVars>>
    /\ UNCHANGED outsideLease

\* The sets of positions EffectReturn is tried with: no ID has acked since
\* the last tick, the first of the n IDs has, all of them have.
Batches(n) == {{}, 1..Min(n, 1), 1..n}

\* The ID is out on lease: a holder has it in its IDSet, or an effect that
\* has closed its IDSet has still to return it.
OutOnLease(id) ==
    \/ \E h \in Holders : /\ ~broker.holders[h].is.nil
                          /\ ~broker.holders[h].is.closed
                          /\ id \in Range(broker.holders[h].is.ids)
    \/ \E e \in BagToSet(effects) : e.phase = "draining" /\ id \in Range(e.ids)

\* brokerThread handles a returnMessage for an ID that no draining effect
\* is about to return: an unknown ID, an unallocated one, one still in use.
StrayReturn(id) ==
    /\ fatal = ""
    /\ nMisuses < MaxMisuses
    /\ nMisuses' = nMisuses + 1
    /\ \E w \in returnClients(World, <<id>>) : Handled(w)
    /\ UNCHANGED clockVars
    /\ UNCHANGED outsideLease

\* Effect.run closes its IDSet while the broker is idle.
EffectClose(e) ==
    /\ fatal = ""
    /\ e.phase = "running"
    /\ Handled(closeEffect(World, e))
    /\ UNCHANGED <<clockVars, leaseHistVars>>
    /\ UNCHANGED outsideLease

\* The holders whose initTime the broker can come to look at: an
\* initialized holder that is still dormant.  The initTime of a holder with
\* a target count is set again before it is read, and resetting a holder
\* without an IDSet changes nothing but its initTime.
Waiting == {h \in Holders : isDormant(broker.holders[h]) /\ ~broker.holders[h].is.nil}

\* More than staleHolderTime passes without a message.
LeaseTick ==
    /\ fatal = ""
    /\ \E h \in Waiting : broker.holders[h].initTime = "recent"
    /\ broker' = [broker EXCEPT !.holders = [h \in Holders |->
                                                IF h \in Waiting
                                                THEN [@[h] EXCEPT !.initTime = "old"]
                                                ELSE @[h]]]
    /\ UNCHANGED <<effects, fatal, leaseHistVars, clockVars>>
    /\ UNCHANGED outsideLease

\* lease.init, Assign for every lease, Start.  The initTime of a new holder
\* is the zero time, more than staleHolderTime ago.
InitLease ==
    /\ ClockInit
    /\ impl = <<>>
    /\ hpc = "select1"
    /\ poppedMsg = NoMsg
    /\ HeapHistInit
    /\ DeviceIdle
    /\ NewIDSetProducer
    /\ BrokerIdle
    /\ NoEffect
    /\ AppIdle

NextLease ==
    \/ \E id \in FreshIDs : AddClient(id)
    \/ \E id \in Repeated : AddClientAgain(id)
    \/ \E e \in BagToSet(effects) : \E P \in Batches(Len(e.ids)) : EffectReturn(e, P)
    \/ \E id \in Repeated \cup FreshIDs : StrayReturn(id)
    \/ \E e \in BagToSet(effects) : EffectClose(e)
    \/ LeaseTick

SpecLease == InitLease /\ [][NextLease]_vars

\* The same broker under leases that do not cover the whole fleet, with
\* callers that send every add and every return once.
InitLeasePart ==
    /\ ClockInit
    /\ impl = <<>>
    /\ hpc = "select1"
    /\ poppedMsg = NoMsg
    /\ HeapHistInit
    /\ DeviceIdle
    /\ NewIDSetProducer
    /\ BrokerWith(PartOfFleet)
    /\ NoEffect
    /\ AppIdle

NextLeasePart ==
    \/ \E id \in FreshIDs : AddClient(id)
    \/ \E e \in BagToSet(effects) : \E P \in Batches(Len(e.ids)) : EffectReturn(e, P)
    \/ \E e \in BagToSet(effects) : EffectClose(e)
    \/ LeaseTick

SpecLeasePart == InitLeasePart /\ [][NextLeasePart]_vars

\* ------------------------------------------------------------------------
\* TimedHeap: delivery order (C3, C4) and delivery time (C5).

\* C3 as stated: the sequence of items emerging on the output channel is
\* non-decreasing in t, for any interleaving of Add calls and consumer reads.
C3_OutputNonDecreasing ==
    \A i, j \in 1..Len(delivered) :
        i < j => delivered[i].earliest <= delivered[j].earliest

\* C3 (amended): an item is delivered after an item with a later t only if
\* it reached the worker after that item had been delivered; any two items
\* the worker held together come out in non-decreasing order of t.
C3_OrderedAmongHeld ==
    \A i, j \in 1..Len(delivered) :
        (i < j /\ delivered[i].earliest > delivered[j].earliest)
            => arrivedAt[delivered[j].msg] >= i

\* Two items added out of order, both held by the worker before either was
\* delivered, have been delivered.
C3_Witness ==
    \E i, j \in 1..Len(delivered) :
        /\ i < j
        /\ delivered[i].earliest < delivered[j].earliest
        /\ delivered[i].msg > delivered[j].msg
        /\ arrivedAt[delivered[i].msg] < i

EarlierRaces == {r \in races : r.tNew < r.tPending}

\* The number of Adds the worker had received when it made its k-th delivery.
SeenAt(k) == Cardinality({m \in 1..nAdded : arrivedAt[m] < k})

\* The messages the worker holds: in the heap or popped.
Held == Msgs(impl) \cup (IF hpc = "select2" THEN {poppedMsg.msg} ELSE {})

DeliveredMsgs == {delivered[k].msg : k \in 1..Len(delivered)}

\* C4 as stated: after an Add with t_new < t_pending won the race against the
\* delivery of the popped item, the next item delivered is the t_new item,
\* followed by the t_pending item.
C4_NextIsNewThenPending ==
    \A r \in EarlierRaces :
        LET at == arrivedAt[r.new]
        IN  /\ Len(delivered) >= at + 1 => delivered[at + 1].msg = r.new
            /\ Len(delivered) >= at + 2 => delivered[at + 2].msg = r.pending

\* C4 (amended): both items go back into the heap; the t_new item is always
\* delivered before the t_pending item; and when no further Add reaches the
\* worker in between, the next item delivered is the t_new item, followed by
\* an item with time t_pending.
C4_NewBeforePending ==
    \A r \in EarlierRaces :
        LET at == arrivedAt[r.new]
        IN  /\ hpc # "stopped"
                   => {r.new, r.pending} \subseteq (Held \cup DeliveredMsgs)
            /\ \A k \in 1..Len(delivered) :
                   delivered[k].msg = r.pending
                       => \E k2 \in (at + 1)..(k - 1) : delivered[k2].msg = r.new
            /\ (Len(delivered) >= at + 1 /\ SeenAt(at + 1) = r.new)
                   => delivered[at + 1].msg = r.new
            /\ (Len(delivered) >= at + 2 /\ SeenAt(at + 2) = r.new)
                   => delivered[at + 2].earliest = r.tPending

\* An earlier Add won a delivery race and both items have since been
\* delivered.
C4_Witness ==
    \E r \in EarlierRaces :
        /\ Len(delivered) >= arrivedAt[r.new] + 2
        /\ delivered[arrivedAt[r.new] + 1].msg = r.new
        /\ delivered[arrivedAt[r.new] + 2].msg = r.pending

\* C5: no item is sent on the output channel before the clock has reached
\* its readyAt, pushed-back items included.
C5_NotBeforeReadyAt ==
    \A k \in 1..Len(delivered) : delivered[k].at >= delivered[k].earliest

\* An item that had to wait for the clock, lost a delivery race and was
\* pushed back has been delivered.
C5_Witness ==
    \E r \in races, k \in 1..Len(delivered) :
        /\ delivered[k].msg = r.pending
        /\ delivered[k].earliest > 1000
        /\ delivered[k].at = delivered[k].earliest

\* ------------------------------------------------------------------------
\* Lease broker: conservation of clients (C1).

\* C1: after every message the broker has handled, for any sequence of add
\* and return messages, fleetSize = leasedCount + len(unallocated), and the
\* conservation check at the entry of assignClients never takes its fatal
\* branch.
C1_Conservation ==
    /\ broker.fleetSize = broker.leasedCount + Len(broker.unallocated)
    /\ fatal # "available + leased != total"

\* The fleet has grown to three clients, a draining effect has returned a
\* client that has not been assigned again, another client is leased, and a
\* holder has been reset.
C1_Witness ==
    /\ fatal = ""
    /\ broker.fleetSize >= 3
    /\ broker.leasedCount >= 1
    /\ \E k \in 1..Len(broker.unallocated) :
           broker.unallocated[k] \in DOMAIN broker.leased
    /\ \E e \in BagToSet(effects) :
           /\ e.phase = "draining"
           /\ broker.holders[e.h].is.nil

\* ------------------------------------------------------------------------
\* idSet: exactly-once launch (C2).

\* C2: every Launch call, also when several run concurrently on one set,
\* starts f exactly once for each ID that was in the set when the call
\* registered and for each ID Add accepted afterwards (an ID accepted twice
\* counts twice): f is never started for more than that, and nothing is
\* missing once the sends of the Add calls are through or Launch has returned.
C2_LaunchExactlyOnce ==
    \A L \in Registered :
        /\ \A id \in IDs : fStarted[L][id] <= expected[L][id]
        /\ (launch[L].pc = "loop" /\ sending = NoSend) => fStarted[L] = expected[L]
        /\ launch[L].pc = "returned" => fStarted[L] = expected[L]

\* Two Launch calls on one set have returned after its close; one of them
\* registered before any ID was added, the other found IDs in its snapshot
\* and was sent more by a later Add, and the ctx of one was cancelled.
C2_Witness ==
    \E L1, L2 \in Launches :
        /\ launch[L1].pc = "returned"
        /\ launch[L2].pc = "returned"
        /\ launch[L1].nSnap = 0
        /\ launch[L2].nSnap > 0
        /\ Total(fStarted[L2]) > launch[L2].nSnap
        /\ Total(fStarted[L1]) >= 3
        /\ ~launch[L1].ctxDone

\* ------------------------------------------------------------------------
\* Device: serial execution (C6), pacing (C7), end-of-type timestamps
\* (C8, C9, C10).

\* C6: on one device no two Request.Execute invocations overlap; requests
\* that re-enqueue themselves are executed one at a time like the others.
C6_ExecuteSerialized == Cardinality(exec) <= 1

\* A KeepVoltageUpdated that enqueued itself again one polling interval ago
\* is being executed once more.
C6_Witness ==
    \E e \in exec :
        /\ e.rwc.req.kind = "KeepVoltageUpdated"
        /\ e.pc = "http"
        /\ e.prevReturn # 0
        /\ now >= voltageUpdateDelay

\* C7: at least 30 ms lie between the return of one HTTP call, successful or
\* failed, and the start of the next one: after every return nextExecute is
\* the return time + 30 ms, and the next call starts no earlier.
C7_PacedAfterEveryReturn ==
    /\ lastReturn # 0 => timestamps["nextExecute"] = lastReturn + postGetURLDelay
    /\ \A e \in exec :
           (e.pc = "http" /\ e.prevReturn # 0)
               => e.started >= e.prevReturn + postGetURLDelay

\* The end-of-type timestamp that belongs to a request type.
StampOf(ty) ==
    CASE ty = "Sound" -> "endOfSound"
      [] ty = "Light" -> "endOfLight"
      [] ty = "Admin" -> "endOfAdmin"

\* C8: after an Enqueue the end-of-type timestamp selected by req.Type() is
\* max(its previous value, earliest + req.Duration()).
C8_EndStampIsMax ==
    lastEnq # NoEnq =>
        timestamps[StampOf(lastEnq.type)]
            = Max(lastEnq.before[StampOf(lastEnq.type)], lastEnq.earliest + lastEnq.dur)

\* C9 as stated: for an Enqueue with FromEnd the readyAt handed to the
\* TimedHeap is max(now, end-of-type timestamp) + delay.
C9_FromEndIsMaxOfNowAndEnd ==
    (lastEnq # NoEnq /\ lastEnq.fromWhen = "FromEnd") =>
        lastEnq.earliest
            = Max(lastEnq.at, lastEnq.before[StampOf(lastEnq.type)]) + lastEnq.delay

\* C9 (amended): for an Enqueue with FromEnd the readyAt handed to the
\* TimedHeap is the stored end-of-type timestamp + delay, and now + delay
\* only when no end timestamp has been stored yet; a stored timestamp in the
\* past schedules the request earlier than now + delay.
C9_FromEndIsStoredEnd ==
    (lastEnq # NoEnq /\ lastEnq.fromWhen = "FromEnd") =>
        LET stored == lastEnq.before[StampOf(lastEnq.type)]
        IN  /\ lastEnq.earliest
                   = (IF stored = 0 THEN lastEnq.at ELSE stored) + lastEnq.delay
            /\ (stored # 0 /\ stored < lastEnq.at)
                   => lastEnq.earliest < lastEnq.at + lastEnq.delay

\* An Enqueue with FromEnd found a stored end timestamp that lay in the past.
C9_Witness ==
    /\ lastEnq # NoEnq
    /\ lastEnq.fromWhen = "FromEnd"
    /\ lastEnq.before[StampOf(lastEnq.type)] # 0
    /\ lastEnq.before[StampOf(lastEnq.type)] < lastEnq.at

\* C10: no Enqueue decreases an end-of-type timestamp, and an Enqueue changes
\* only the timestamp of its own request type.
C10_EndStampsMonotone ==
    lastEnq # NoEnq =>
        \A name \in {"endOfAdmin", "endOfLight", "endOfSound"} :
            /\ timestamps[name] >= lastEnq.before[name]
            /\ name # StampOf(lastEnq.type) => timestamps[name] = lastEnq.before[name]

\* An Enqueue has advanced the timestamp of its own type while the timestamp
\* another type's Enqueue had set earlier stayed as it was.
C10_Witness ==
    /\ lastEnq # NoEnq
    /\ timestamps[StampOf(lastEnq.type)] > lastEnq.before[StampOf(lastEnq.type)]
    /\ \E name \in {"endOfAdmin", "endOfLight", "endOfSound"} :
           name # StampOf(lastEnq.type) /\ timestamps[name] # 0

\* ------------------------------------------------------------------------
\* Device: expired requests (C11).

\* C11: a request whose ctx is already cancelled when the device goroutine
\* receives it from the heap is not executed: no Execute invocation is
\* started for it, so no HTTP request is issued, and the goroutine is back
\* at its receive, free to take the next request.
C11_ExpiredNotExecuted ==
    lastRecv.ctxErr => (~lastRecv.executed /\ exec = {})

\* The goroutine has discarded an expired request and gone on to the next
\* one, whose HTTP call is in progress.
C11_Witness ==
    /\ lastRecv.discarded
    /\ ~lastRecv.ctxErr
    /\ \E e \in exec : e.pc = "http"

\* ------------------------------------------------------------------------
\* Effect.run and DrainQueue: return of the clients (C12, C13).

\* The IDs of a list, as a set.
Elems(s) == {s[i] : i \in 1..Len(s)}

\* C12: once the algorithm of an effect has returned and its IDSet is
\* closed, every ID the IDSet accepted is passed to lease.ReturnClients, each
\* exactly once, and the drain loop ends, given that every device reports a
\* pending depth of 0 in the end; at no time has an ID been returned more
\* often than it was accepted.
C12_AllReturnedOnce ==
    /\ [](\A id \in IDs : Counts(returned)[id] <= Counts(ids)[id])
    /\ (drain.pc = "closed") ~>
           (drain.pc = "done" /\ Counts(returned) = Counts(ids))

\* The drain of two clients has ended, one of them after a retry.
C12_Witness ==
    /\ drain.pc = "done"
    /\ Elems(returned) = IDs
    /\ \E id \in IDs : devices[id].delay = transientDelay

\* C13: an ID is passed to lease.ReturnClients, or waits in the drain loop
\* for that, only after the DrainQueue request of its device has read a
\* pending depth of 0 and its ack has been received; after an HTTP error, a
\* body that does not parse or a depth above 0 the request has not acked
\* and is back in the device heap, enqueued transientDelay (5 s) from then.
C13_ReturnOnlyAfterAck ==
    /\ \A id \in Elems(returned) \cup Elems(drain.draining) :
           /\ devices[id].outcome = "zero"
           /\ devices[id].acks = 1
    /\ \A id \in IDs :
           devices[id].outcome \in Outcomes \ {"zero"} =>
               /\ devices[id].st = "queued"
               /\ devices[id].delay = transientDelay
               /\ devices[id].wait <= transientDelay
               /\ devices[id].acks = 0
               /\ id \notin Elems(returned) \cup Elems(drain.draining)

\* One client has been returned after its request read a depth of 0, while
\* the request of the other one has failed and waits for its retry.
C13_Witness ==
    /\ "a" \in Elems(returned)
    /\ devices["b"].outcome = "garbage"
    /\ devices["b"].st = "queued"
    /\ devices["b"].wait > 0

\* ------------------------------------------------------------------------
\* Lease broker: repeated adds and stray returns (C14, C15).

\* C14: an addClient for an ID the broker knows already, leased or still
\* unallocated, ends in the fatal error: no ID is counted in fleetSize twice
\* and none is appended to unallocated by a second add.
C14_DuplicateAddIsFatal ==
    broker.fleetSize = Cardinality(broker.locations)

\* C15: a returnClients for an ID that is not leased at the time, because it
\* was never assigned or because it has been returned and not assigned
\* again since, ends in a fatal error: the ID is not appended to unallocated
\* and leasedCount is not decremented for it.
C15_StrayReturnIsFatal ==
    [][\A id \in Repeated \cup FreshIDs :
          (StrayReturn(id) /\ ~OutOnLease(id)) => fatal' # ""]_vars

\* ------------------------------------------------------------------------
\* Lease broker: target counts (C16).

\* The target updateTargetCount computes for holder h at the present fleet
\* size.
TargetNow(h) ==
    LET r == Round(broker.holders[h].targetFraction * broker.fleetSize, One)
    IN  IF Leases[h].maxClients > 0 THEN Min(r, Leases[h].maxClients) ELSE r

\* C16: the target client count of a holder goes down only by reset():
\* whatever clients arrive or are returned and whatever holders close,
\* setTargetCount is never asked to lower a count, so its "decreasing target
\* client count" panic is not reached; between resets the count is the
\* rounded share of a fleet size that only grows.
C16_TargetNeverDecreases ==
    /\ fatal # "decreasing target client count"
    /\ fatal = "" => \A h \in Holders : broker.holders[h].targetClientCount = TargetNow(h)
    /\ broker.fleetSize >= Cardinality(broker.locations)

\* A holder whose target has grown to two clients holds two clients again
\* after an earlier activation of it was closed and reset, and the effect of
\* that activation is still draining.
C16_Witness ==
    /\ fatal = ""
    /\ \E h \in Holders :
           /\ broker.holders[h].targetClientCount >= 2
           /\ Len(broker.holders[h].is.ids) >= 2
           /\ \E e \in BagToSet(effects) : e.h = h /\ e.phase = "draining"

\* ------------------------------------------------------------------------
\* Lease broker: the leased fraction once allocation has settled (C17).

\* No message is on its way to the broker: clients have been announced and
\* no effect is draining clients it still has to return.
Settled ==
    /\ fatal = ""
    /\ broker.fleetSize > 0
    /\ \A e \in BagToSet(effects) : e.phase = "running"

\* C17 as stated: once allocation has settled, leasedFraction is at least
\* 0.9999 whenever the holders' total weight is above 0 and a holder can
\* take more clients, which is read as: a holder of positive weight wants
\* clients.
C17_FullyLeasedWhenSettled ==
    (/\ Settled
     /\ \E h \in Holders : /\ Leases[h].weight > 0
                           /\ clientsWanted(broker.holders[h]) > 0)
        => broker.leasedFraction >= fullyLeasedFraction

\* C17 as amended: once allocation has settled, leasedFraction is at least
\* 0.9999 whenever a holder of positive weight is still without a target
\* fraction (it has no IDSet).
C17_FullyLeasedOrAllInitialized ==
    (/\ Settled
     /\ \E h \in Holders : Leases[h].weight > 0 /\ broker.holders[h].is.nil)
        => broker.leasedFraction >= fullyLeasedFraction

\* Allocation has settled with a holder of positive weight left without a
\* target fraction while another holder has its clients.
C17_Witness ==
    /\ Settled
    /\ \E h \in Holders : Leases[h].weight > 0 /\ broker.holders[h].is.nil
    /\ \E h \in Holders : Len(broker.holders[h].is.ids) > 0

\* ------------------------------------------------------------------------
\* Lease broker: Holder.Run once per activation (C18).

\* The effects in flight that Holder.Run of holder h started and that still
\* run on its IDSet.
RunsOf(h) == CopiesIn(Running(h), effects)

\* C18: between a holder's init and its next reset Holder.Run is called at
\* most once, by the first Add that brings the set up to minClients: a
\* holder below minClients has not been run, a started holder has at least
\* minClients and exactly one effect on its open set, however many Adds
\* followed, and none is started on a set that was closed.
C18_RunOncePerActivation ==
    \A h \in Holders :
        LET hd == broker.holders[h]
        IN  /\ RunsOf(h) <= 1
            /\ RunsOf(h) = 1 <=> (hd.started /\ ~hd.is.closed)
            /\ hd.started => ~hd.is.nil /\ Len(hd.is.ids) >= Leases[h].minClients
            /\ (~hd.is.nil /\ ~hd.started) => Len(hd.is.ids) < Leases[h].minClients

\* A holder that was run has been given clients beyond minClients since, and
\* one effect runs on its set.
C18_Witness ==
    \E h \in Holders :
        /\ broker.holders[h].started
        /\ Len(broker.holders[h].is.ids) > Leases[h].minClients
        /\ RunsOf(h) = 1
        /\ fatal = ""

\* ------------------------------------------------------------------------
\* Lease broker: the clients of a closed holder go to the others (C19).

\* The broker once cleanHolders has run on it.
Cleaned == cleanFrom(broker, 1)

\* brokerThread has handled a returnMessage to its end: a step that is
\* neither an add, nor the closing of an IDSet, nor the passing of time.
ReturnHandled ==
    /\ fatal' = ""
    /\ broker'.fleetSize = broker.fleetSize
    /\ ~LeaseTick
    /\ \A e \in BagToSet(effects) : ~EffectClose(e)

\* C19: when brokerThread handles a returnMessage, every holder that had
\* closed its IDSet is reset; afterwards every client is in unallocated, in
\* a holder's IDSet or still with a draining effect, and a client is left
\* in unallocated only if no holder wants one; a holder that is reset while
\* leasedFraction is still 0.9999 or more after the reset stays without an
\* IDSet and is not run.
C19_ReturnedGoToOthers ==
    [][ReturnHandled =>
          /\ \A h \in Holders :
                broker.holders[h].is.closed => ~broker'.holders[h].is.closed
          /\ \A h \in Holders :
                (Cleaned.holders[h].is.nil
                    /\ Cleaned.leasedFraction >= fullyLeasedFraction) =>
                    /\ broker'.holders[h].is.nil
                    /\ ~broker'.holders[h].started
                    /\ CopiesIn(Running(h), effects') = 0
          /\ \A id \in broker'.locations :
                \/ id \in Range(broker'.unallocated)
                \/ \E h \in Holders : id \in Range(broker'.holders[h].is.ids)
                \/ \E e \in BagToSet(effects') : id \in Range(e.ids)
          /\ broker'.unallocated # <<>> =>
                \A h \in Holders : clientsWanted(broker'.holders[h]) <= 0]_vars

\* A holder of positive weight has closed its IDSet, has had its clients
\* returned and is left without an IDSet while the fleet is fully leased;
\* another holder runs with more than one client and no client is idle.
C19_Witness ==
    /\ fatal = ""
    /\ broker.leasedFraction >= fullyLeasedFraction
    /\ broker.unallocated = <<>>
    /\ \A e \in BagToSet(effects) : e.phase = "running"
    /\ \E h, g \in Holders :
          /\ Leases[h].weight > 0
          /\ broker.holders[h].is.nil
          /\ Len(broker.holders[g].is.ids) > 1
          /\ RunsOf(g) = 1

\* ------------------------------------------------------------------------
\* Lease broker: a holder whose producer refuses the Add (C20).

\* leasedFraction beyond the target fractions of the holders.
RECURSIVE FractionsFrom(_, _)
FractionsFrom(bk, i) ==
    IF i > Len(Leases) THEN 0
    ELSE bk.holders[i].targetFraction + FractionsFrom(bk, i + 1)

Surplus(bk) == bk.leasedFraction - FractionsFrom(bk, 1)

\* Holder h, whose effect was running on its open IDSet, has been refused
\* in the handler that ends with this step: the effect has closed the set
\* and the holder is left without one.
Refused(h) ==
    /\ fatal' = ""
    /\ RunsOf(h) = 1
    /\ ~broker.holders[h].is.closed
    /\ broker'.holders[h].is.nil

\* The broker as updateLeasedFraction finds it in the handler that ends
\* with this step: addClient does not clean the holders, returnClients does.
Found == IF broker'.fleetSize = broker.fleetSize THEN Cleaned ELSE broker

\* C20: when the producer of the holder assignClients has chosen refuses
\* the Add because it was closed, the holder is reset and its targetFraction
\* leaves leasedFraction (where no dormant holder was handed a fraction
\* again, leasedFraction keeps its distance to the holders' fractions); the
\* effect still has exactly the IDs the holder had, so the clients offered
\* stay in unallocated, leasedCount not counting them and none marked
\* leased but those another holder took; and they have been offered to the
\* holders that follow:
\* any left in unallocated is one no holder wants.
C20_RefusedAddKeepsClients ==
    [][\A h \in Holders :
          Refused(h) =>
              /\ broker'.holders[h] = reset(broker.holders[h])
              /\ CopiesIn(Draining(h, broker.holders[h].is.ids), effects') >= 1
              /\ (\A g \in Holders :
                     Found.holders[g].is.nil \/ ~isDormant(Found.holders[g]))
                    => Surplus(broker') = Surplus(broker)
              /\ broker'.fleetSize - broker'.leasedCount = Len(broker'.unallocated)
              /\ \A id \in DOMAIN broker'.leased \ DOMAIN broker.leased :
                    \E g \in Holders \ {h} : id \in Range(broker'.holders[g].is.ids)
              /\ broker'.unallocated # <<>> =>
                    \A g \in Holders : clientsWanted(broker'.holders[g]) <= 0]_vars

\* A holder of positive weight has been refused: its effect drains the IDs
\* it had, the holder has no IDSet and no fraction was handed out since,
\* leasedFraction being below 0.9999; the client it was offered went to
\* another holder, which runs.
C20_Witness ==
    /\ fatal = ""
    /\ broker.leasedFraction < fullyLeasedFraction
    /\ broker.unallocated = <<>>
    /\ \E h \in Holders :
          /\ Leases[h].weight > 0
          /\ broker.holders[h].is.nil
          /\ \E e \in BagToSet(effects) :
                e.phase = "draining" /\ e.h = h /\ e.ids # <<>>
          /\ \E g \in Holders \ {h} : /\ Len(broker.holders[g].is.ids) >= 1
                                      /\ RunsOf(g) = 1

\* ------------------------------------------------------------------------
\* idSet: Launch returns once the set is closed (C21).

\* C21: every Launch call that has registered its listener returns once the
\* set is closed, whether Close ran before or after the registration.
C21_LaunchReturnsOnceClosed ==
    \A L \in Launches :
        (closed /\ launch[L].pc \in {"snap", "loop"}) ~> (launch[L].pc = "returned")

\* ------------------------------------------------------------------------
\* idSet: a ctx cancelled while an Add is sending (C22).

\* C22: while an Add holds clientMu and sends, the set is not closed and no
\* channel is, even if the ctx of a Launch call has been cancelled; the Add
\* gets through all its sends, every ID it accepted gets its f(id) from
\* the Launch call, and after that the Close that Launch started closes the
\* set and Launch returns.
C22_CancelDuringAdd ==
    /\ [](sending # NoSend => (~closed /\ chClosed = {}))
    /\ \A L \in Launches :
          (sending # NoSend /\ L \in ctxCancelled)
              ~> (/\ sending = NoSend
                  /\ closed
                  /\ launch[L].pc = "returned"
                  /\ fStarted[L] = expected[L])

\* An Add is in the middle of its sends while the ctx of a Launch call has
\* been cancelled and the Close that Launch started waits for clientMu.
C22_Witness ==
    /\ sending # NoSend
    /\ sending.k > 1
    /\ closers > 0
    /\ \E L \in ctxCancelled : launch[L].pc = "loop" /\ ~launch[L].ctxDone

\* ------------------------------------------------------------------------
\* idSet: Add on a closed set (C23).

\* C23: an Add call on a closed set changes nothing: the IDs a Snapshot
\* returns are the same after it as before, it sends to no listener, and no
\* Launch call ever starts more f(id) than for the IDs that were accepted.
C23_AddAfterCloseRefused ==
    /\ [][(closed /\ nIDAdds' # nIDAdds) =>
              /\ snapshotLocked(ids') = snapshotLocked(ids)
              /\ sending' = NoSend
              /\ fStarted' = fStarted
              /\ expected' = expected]_vars
    /\ [](\A L \in Launches : \A id \in IDs : fStarted[L][id] <= expected[L][id])
    /\ [](closed => sending = NoSend)

\* The set has been closed with one ID in it, a second Add has been refused,
\* and a Launch call has returned having started f for that one ID.
C23_Witness ==
    /\ closed
    /\ nIDAdds >= 2
    /\ ids = <<"a">>
    /\ \E L \in Launches : /\ launch[L].pc = "returned"
                           /\ fStarted[L] = Counts(ids)

\* ------------------------------------------------------------------------
\* TimedHeap: Add never waits for the consumer (C24).

\* C24: whatever the heap worker of a device is doing, waiting for the timer
\* or blocked offering a popped request to the device goroutine, it is
\* ready to receive what Add sends: every Enqueue call of the top half can
\* hand over its request, and so can a KeepVoltageUpdated that enqueues
\* itself again from the device goroutine when its HTTP call returns.
C24_AddNeverWaits ==
    /\ \A c \in TopHalfCalls :
          ENABLED ThreadRecv(EnqueueMsg(timestamps, c.ctx, c.req, c.delay,
                                        c.fromWhen, now))
    /\ \A e \in exec :
          (e.pc = "http" /\ e.rwc.req.kind = "KeepVoltageUpdated") =>
              \A outcome \in {"ok", "error", "garbage"} : ENABLED HTTPReturn(e, outcome)

\* The heap worker is blocked offering a popped request while the device
\* goroutine is busy with a KeepVoltageUpdated, which is about to enqueue
\* itself again.
C24_Witness ==
    /\ hpc = "select2"
    /\ \E e \in exec : e.pc = "http" /\ e.rwc.req.kind = "KeepVoltageUpdated"

\* ------------------------------------------------------------------------
\* Device: one KeepVoltageUpdated outstanding (C25).

\* The KeepVoltageUpdated requests that are in the heap, popped by the heap
\* worker, or being executed.
PollsInHeap == {k \in 1..Len(impl) : impl[k].msg.req.kind = "KeepVoltageUpdated"}

PollsPopped ==
    IF poppedMsg # NoMsg /\ poppedMsg.msg.req.kind = "KeepVoltageUpdated" THEN 1 ELSE 0

PollsExecuting == {e \in exec : e.rwc.req.kind = "KeepVoltageUpdated"}

PollsOutstanding == Cardinality(PollsInHeap) + PollsPopped + Cardinality(PollsExecuting)

\* C25: once addClientMessage.handle has enqueued its seed requests, exactly
\* one KeepVoltageUpdated is outstanding on the device at any time, and none
\* before; when its execution ends, in success, in an HTTP error or in a
\* parse error, it is in the heap again, due voltageUpdateDelay (60 s) from
\* then.
C25_OnePollOutstanding ==
    /\ [](PollsOutstanding = IF nEnq >= Len(SeedRequests) THEN 1 ELSE 0)
    /\ [][(PollsExecuting # {} /\ PollsExecuting' = {}) =>
              /\ Cardinality(PollsInHeap') = 1
              /\ \A k \in PollsInHeap' :
                    impl'[k].earliest = now + voltageUpdateDelay]_vars

\* A KeepVoltageUpdated whose HTTP call failed is in the heap again, due
\* 60 s after the failure, on a device that effects have enqueued on.
C25_Witness ==
    /\ nEnq > Len(SeedRequests)
    /\ lastReturn # 0
    /\ timestamps["lastFailure"] = lastReturn
    /\ \E k \in PollsInHeap : impl[k].earliest = lastReturn + voltageUpdateDelay

\* ------------------------------------------------------------------------
\* The sound effect "loop" and fileset.Set.PickCarefully.  A file is
\* its Duration; durations, delays and the clock are in the same unit.

\* The file sets, the mean FileDelay, the values FileReps.Int() and
\* GroupDelay.Duration() take, and the time the ctx of the effect leaves.
FileSets == {{3}, {3, 8}, {2, 5}, {6, 8}}

FileDelays == {0, 1}

FileRepsValues == {0, 1, 3}

GroupDelays == {0, 2}

Lifetimes == {4, 9, 12}

\* A findReps that counts a repetition that has only begun.
findRepsBegun(file, deadline, delay, t) ==
    (Max(deadline - t, 0) + delay + file + delay - 1) \div (file + delay)

\* findReps: how many repetitions of the file, delay apart, end by the
\* deadline.
findReps(file, deadline, delay, t) ==
    (Max(deadline - t, 0) + delay) \div (file + delay)

\* Play.Duration.
PlayDuration(p) ==
    IF p.reps > 0 THEN (p.file + p.delay) * p.reps - p.delay
    ELSE (p.file + p.delay) * p.reps

\* PickCarefully at time t: the pairs of the file picked first and the Play
\* returned.  In the branch taken when the first file does not fit, the
\* code declares a second actualReps; the Play returned after the branch is
\* built from the first one.
PickCarefully(files, deadline, reps, delay, t) ==
    LET reps1 == IF reps = 0 THEN 1 ELSE reps
        remaining == Max(deadline - t, 0)
        fit == {f \in files : f < remaining}
    IN UNION {
         LET actualReps == Min(reps1, findReps(file, deadline, delay, t))
         IN IF actualReps # 0
            THEN {[first |-> file,
                   play |-> [file |-> file, reps |-> actualReps, delay |-> delay]]}
            ELSE IF fit = {}
            THEN {[first |-> file, play |-> NoPlay]}
            ELSE {LET actualRepsInner == Min(reps1, findReps(f, deadline, delay, t))
                  IN [first |-> file,
                      play |-> IF actualRepsInner = 0 THEN NoPlay
                               ELSE [file |-> f, reps |-> actualReps,
                                     delay |-> delay]] : f \in fit}
         : file \in files}

\* What the rest of the server leaves alone while loop.Run runs.
outsideSound == <<ticks, heapVars, heapHist, devVars, devHist, idSetVars,
                  idSetHist, leaseConf, leaseVars, leaseHistVars, drainVars,
                  data, leaseNew, player,
                   ws,
                   storm,
                   nonrandom,
                   shuffle>>

\* ctx.Err() of the effect's ctx.
ctxErr == sound.ctxDone \/ now >= sound.deadline

\* One pass of the loop body up to the select: PickCarefully, and either
\* the return on Reps == 0 or EnqueueAfterDelay and the sleep timer.
LoopPick(reps, groupDelay) ==
    /\ sound.pc = "top"
    /\ ~ctxErr
    /\ \E r \in PickCarefully(sound.files, sound.deadline, reps, sound.delay, now) :
          /\ picked' = [n |-> picked.n + 1, at |-> now, reps |-> reps,
                        first |-> r.first, play |-> r.play]
          /\ IF r.play.reps = 0
             THEN /\ sound' = [sound EXCEPT !.pc = "returned"]
                  /\ plays' = plays
             ELSE /\ plays' = Append(plays, [at |-> now, play |-> r.play])
                  /\ sound' = [sound EXCEPT !.pc = "sleep",
                                            !.wake = now + PlayDuration(r.play)
                                                         + groupDelay]
    /\ UNCHANGED <<now, outsideSound>>

\* The loop condition fails.
LoopExit ==
    /\ sound.pc = "top"
    /\ ctxErr
    /\ sound' = [sound EXCEPT !.pc = "returned"]
    /\ UNCHANGED <<now, plays, picked, outsideSound>>

\* The select: the sleep timer fires or the ctx is done, whichever is
\* first.
LoopWake ==
    /\ sound.pc = "sleep"
    /\ now' = IF sound.ctxDone THEN now ELSE Min(sound.wake, sound.deadline)
    /\ sound' = [sound EXCEPT !.pc = "top"]
    /\ UNCHANGED <<plays, picked, outsideSound>>

\* The effect is cancelled before its deadline, at time t.
LoopCancel(t) ==
    /\ sound.pc # "returned"
    /\ ~ctxErr
    /\ IF sound.pc = "sleep" THEN t <= Min(sound.wake, sound.deadline)
       ELSE t = now
    /\ now' = t
    /\ sound' = [sound EXCEPT !.ctxDone = TRUE]
    /\ UNCHANGED <<plays, picked, outsideSound>>

InitLoop ==
    /\ ClockInit
    /\ impl = <<>>
    /\ hpc = "select1"
    /\ poppedMsg = NoMsg
    /\ HeapHistInit
    /\ DeviceIdle
    /\ NewIDSetProducer
    /\ BrokerIdle
    /\ NoEffect
    /\ NoShuffle
    /\ NoNonrandom
    /\ NoStorm
    /\ NoWeightedSet
    /\ \E files \in FileSets, delay \in FileDelays, life \in Lifetimes :
          sound = [pc |-> "top", deadline |-> now + life, ctxDone |-> FALSE,
                   files |-> files, delay |-> delay, wake |-> 0]
    /\ plays = <<>>
    /\ picked = NoPick
    /\ NoClients
    /\ NoLeaseNew
    /\ NoPlayer

NextLoop ==
    \/ \E reps \in FileRepsValues, groupDelay \in GroupDelays : LoopPick(reps, groupDelay)
    \/ LoopExit
    \/ LoopWake
    \/ \E t \in now..(sound.deadline - 1) : LoopCancel(t)

SpecLoop == InitLoop /\ [][NextLoop]_vars

\* The files PickCarefully's second pass would choose from at the last
\* call: those shorter than the time that was left.
Fitting == {f \in sound.files : f < Max(sound.deadline - picked.at, 0)}

\* The Plays with the configured count, or 1 for a count of 0, or fewer
\* repetitions of the file that end by the deadline when started at t.
RepsThatFit(file, reps, t) ==
    {n \in 1..(IF reps = 0 THEN 1 ELSE reps) :
        t + PlayDuration([file |-> file, reps |-> n, delay |-> sound.delay])
            <= sound.deadline}

\* At the last PickCarefully call no file of the set could be played even
\* once by the deadline.
NoneFits ==
    \A f \in sound.files : RepsThatFit(f, picked.reps, picked.at) = {}

\* C26: every Play that loop.Run enqueues ends, by its computed Duration,
\* at or before the deadline of the effect, with the largest number of
\* repetitions not above the configured one that fits; a PickCarefully that
\* returns no Play, as it does when no file fits, makes loop.Run return
\* without enqueuing, and nothing is enqueued after the return.
C26_PlaysEndByDeadline ==
    /\ [](\A k \in 1..Len(plays) :
             plays[k].at + PlayDuration(plays[k].play) <= sound.deadline)
    /\ [](Len(plays) > 0 /\ picked.play.reps > 0 =>
             /\ plays[Len(plays)] = [at |-> picked.at, play |-> picked.play]
             /\ picked.play.reps \in RepsThatFit(picked.play.file, picked.reps, picked.at)
             /\ \A n \in RepsThatFit(picked.play.file, picked.reps, picked.at) :
                   n <= picked.play.reps)
    /\ [][picked'.n # picked.n /\ NoneFits' => picked'.play.reps = 0]_vars
    /\ [][(picked'.n # picked.n /\ picked'.play.reps = 0) \/ sound.pc = "returned"
              => plays' = plays /\ sound'.pc = "returned"]_vars

\* loop.Run has enqueued a Play of fewer repetitions than configured, one
\* more of which would have ended after the deadline, has slept, and has
\* returned on a PickCarefully made when no file fitted any more.
C26_Witness ==
    /\ Len(plays) > 0
    /\ plays[1].play.reps > 1
    /\ plays[1].at + PlayDuration([plays[1].play EXCEPT !.reps = @ + 1])
           > sound.deadline
    /\ picked.n > 1
    /\ picked.play.reps = 0
    /\ NoneFits
    /\ sound.pc = "returned"
    /\ ~sound.ctxDone

\* C27: when the file PickCarefully picks first cannot be played once by
\* the deadline and a file of the set can, the Play returned is for a file
\* that fits and has Reps >= 1; Reps == 0 is returned only when no file of
\* the set fits.
C27_PickCarefullyFindsFit ==
    picked # NoPick =>
        /\ (findReps(picked.first, sound.deadline, sound.delay, picked.at) = 0
               /\ Fitting # {})
              => /\ picked.play.reps >= 1
                 /\ picked.play.file \in Fitting
        /\ picked.play.reps = 0 => Fitting = {}

\* ------------------------------------------------------------------------
\* Package client: addClientMessage.handle, run by the admin goroutine for
\* each mDNS announcement, one at a time.

MaxAnnounces == 5

NetLocations == {"n1", "n2", "n3"}

\* A lookup that finds no device.
knownNever(devices_, id) == FALSE

\* "_, ok := data.devices[r.id]".
known(devices_, id) == id \in DOMAIN devices_

\* d.SetNetLocation, or device.New and data.devices[r.id] = d.
setDevice(devices_, id, location) ==
    [i \in DOMAIN devices_ \cup {id} |->
        IF i = id THEN location ELSE devices_[i]]

outsideClient == <<clockVars, heapVars, heapHist, devVars, devHist, idSetVars,
                   idSetHist, leaseConf, leaseVars, leaseHistVars, drainVars,
                   soundVars, leaseNew, player,
                   ws,
                   storm,
                   nonrandom,
                   shuffle>>

\* addClientMessage.handle.  For a new ID: device.New and Start, the three
\* seed requests, and lease.AddClient, which sends an add to every broker.
Announce(id, location) ==
    /\ data.n < MaxAnnounces
    /\ data' =
          IF known(data.devices, id)
          THEN [data EXCEPT !.devices = setDevice(@, id, location),
                               !.n = @ + 1,
                               !.last = <<id, location>>]
          ELSE [data EXCEPT !.devices = setDevice(@, id, location),
                               !.started[id] = @ + 1,
                               !.seeds[id] = @ \o SeedRequests,
                               !.adds = [lt \in LeaseTypes |-> Append(@[lt], id)],
                               !.n = @ + 1,
                               !.last = <<id, location>>]
    /\ UNCHANGED outsideClient

InitClient ==
    /\ ClockInit
    /\ impl = <<>>
    /\ hpc = "select1"
    /\ poppedMsg = NoMsg
    /\ HeapHistInit
    /\ DeviceIdle
    /\ NewIDSetProducer
    /\ BrokerIdle
    /\ NoEffect
    /\ NoShuffle
    /\ NoNonrandom
    /\ NoStorm
    /\ NoWeightedSet
    /\ NoLoop
    /\ NoClients
    /\ NoLeaseNew
    /\ NoPlayer

NextClient == \E id \in IDs, location \in NetLocations : Announce(id, location)

SpecClient == InitClient /\ [][NextClient]_vars

\* C28: an announcement of an ID that is in data.devices changes the
\* NetLocation of that device and nothing else: no device is created or
\* started, no seed request is enqueued, no add is sent; so every device
\* is started once and seeded once, and every broker is sent add(id) at
\* most once per ID.
C28_ReannouncementOnlyMoves ==
    /\ [][(data'.n # data.n /\ data'.last[1] \in DOMAIN data.devices) =>
              data' = [data EXCEPT
                             !.devices[data'.last[1]] = data'.last[2],
                             !.n = @ + 1,
                             !.last = data'.last]]_vars
    /\ [](\A id \in IDs :
             /\ data.started[id] = IF id \in DOMAIN data.devices THEN 1 ELSE 0
             /\ data.seeds[id] = IF id \in DOMAIN data.devices THEN SeedRequests
                                    ELSE <<>>
             /\ \A lt \in LeaseTypes :
                   Cardinality({k \in 1..Len(data.adds[lt]) :
                                   data.adds[lt][k] = id})
                       = IF id \in DOMAIN data.devices THEN 1 ELSE 0)

\* Both devices are known and more announcements than devices have been
\* handled; the last one moved device a, known since the first, to a new
\* address.
C28_Witness ==
    /\ data.n = MaxAnnounces
    /\ DOMAIN data.devices = IDs
    /\ data.last = <<"a", "n2">>
    /\ data.devices["a"] = "n2"
    /\ data.adds["sound"] = <<"a", "b">>

\* ------------------------------------------------------------------------
\* lease.New and validate.  Fractions are in hundredths.

\* The Configs lease.New is called with.
Configs ==
    [Type : LeaseTypes, Weight : {1}, FleetFraction : {"default", "given"},
     MinClients : {-1, 0, 1, 2, 3}, MaxClients : {-1, 0, 1, 2},
     MaxFleetFraction : {-25, 0, 75}]

\* A validate that has only its first test.
validateMaxes(l) ==
    IF l.maxClients > 0 /\ l.maxFleetFraction > 0
    THEN [l |-> NilLease, err |-> "one must be zero"]
    ELSE [l |-> l, err |-> ""]

\* validate.
validate(l) ==
    IF l.maxClients > 0 /\ l.maxFleetFraction > 0
    THEN [l |-> NilLease, err |-> "one must be zero"]
    ELSE IF l.maxClients > 0 /\ l.minClients > l.maxClients
    THEN [l |-> NilLease, err |-> "cannot be satisfied"]
    ELSE [l |-> l, err |-> ""]

\* lease.New: the Lease of the Config, with the default fleetFraction
\* where the Config gives none, validated.
New(c, name) ==
    validate([nil |-> FALSE, Type |-> c.Type, name |-> name, weight |-> c.Weight,
              fleetFraction |-> IF c.FleetFraction = "default"
                                THEN [Mean |-> 5000, Variance |-> 2000,
                                      Distribution |-> "Normal"]
                                ELSE [Mean |-> 3000, Variance |-> 0,
                                      Distribution |-> "Uniform"],
              minClients |-> c.MinClients, maxClients |-> c.MaxClients,
              maxFleetFraction |-> c.MaxFleetFraction])

outsideLeaseNew == <<clockVars, heapVars, heapHist, devVars, devHist, idSetVars,
                     idSetHist, leaseConf, leaseVars, leaseHistVars, drainVars,
                     soundVars, data, player,
                   ws,
                   storm,
                   nonrandom,
                   shuffle>>

\* effect.New calls lease.New on the Config of an effect.
LeaseNew ==
    /\ leaseNew.pc = "config"
    /\ LET r == New(leaseNew.c, "effect")
       IN leaseNew' = [leaseNew EXCEPT !.pc = "done", !.l = r.l, !.err = r.err]
    /\ UNCHANGED outsideLeaseNew

InitLeaseNew ==
    /\ ClockInit
    /\ impl = <<>>
    /\ hpc = "select1"
    /\ poppedMsg = NoMsg
    /\ HeapHistInit
    /\ DeviceIdle
    /\ NewIDSetProducer
    /\ BrokerIdle
    /\ NoEffect
    /\ NoShuffle
    /\ NoNonrandom
    /\ NoStorm
    /\ NoWeightedSet
    /\ NoLoop
    /\ NoClients
    /\ \E c \in Configs :
          leaseNew = [pc |-> "config", c |-> c, l |-> NilLease, err |-> ""]
    /\ NoPlayer

NextLeaseNew == LeaseNew

SpecLeaseNew == InitLeaseNew /\ [][NextLeaseNew]_vars

\* C29: lease.New returns an error and no Lease for a Config with
\* MaxClients > 0 and MaxFleetFraction > 0 and for one with MaxClients > 0
\* and MinClients > MaxClients; for every other Config it returns no error
\* and a Lease with the Config's type, weight and limits.
C29_LeaseNewErrors ==
    leaseNew.pc = "done" =>
        LET c == leaseNew.c
            l == leaseNew.l
        IN IF \/ c.MaxClients > 0 /\ c.MaxFleetFraction > 0
              \/ c.MaxClients > 0 /\ c.MinClients > c.MaxClients
           THEN leaseNew.err # "" /\ l = NilLease
           ELSE /\ leaseNew.err = ""
                /\ l # NilLease
                /\ l.Type = c.Type
                /\ l.weight = c.Weight
                /\ <<l.minClients, l.maxClients, l.maxFleetFraction>>
                       = <<c.MinClients, c.MaxClients, c.MaxFleetFraction>>

\* lease.New has refused a Config whose MinClients is above its MaxClients
\* and that has no MaxFleetFraction.
C29_Witness ==
    /\ leaseNew.pc = "done"
    /\ leaseNew.c.MinClients = 3
    /\ leaseNew.c.MaxClients = 2
    /\ leaseNew.c.MaxFleetFraction = 0
    /\ leaseNew.err = "cannot be satisfied"
    /\ leaseNew.l = NilLease

\* ------------------------------------------------------------------------
\* The Player: Player.start picks an effect by weight, runs it, and
\* adjusts its weight.

MaxRuns == 4

\* Config.Weights of the players, in the order player.New ranged over them.
PlayerWeights == {<<1>>, <<1, 2>>, <<2, 0>>, <<0, 3, 1>>}

\* pickEffect: the effects it can return, by index.  target is in
\* [0, sum); the first effect is returned when target is 0, whatever its
\* weight, another one when target lies in its span (prefix, prefix +
\* weight].
pickEffect(effects_) ==
    {i \in 1..Len(effects_) : i = 1 \/ effects_[i].weight > 0}

\* An adjustment that never goes back to baseWeight.
adjustUpOnly(eff, err) ==
    IF err = "nil" THEN eff
    ELSE [eff EXCEPT !.weight = @ + 1]

\* "if err == nil { eff.weight = eff.baseWeight } else { eff.weight++ }".
adjust(eff, err) ==
    IF err = "nil" THEN [eff EXCEPT !.weight = eff.baseWeight]
    ELSE [eff EXCEPT !.weight = @ + 1]

outsidePlayer == <<clockVars, heapVars, heapHist, devVars, devHist, idSetVars,
                   idSetHist, leaseConf, leaseVars, leaseHistVars, drainVars,
                   soundVars, data, leaseNew,
                   ws,
                   storm,
                   nonrandom,
                   shuffle>>

\* One pass of the loop of Player.start: pickEffect, Effect.Run, which
\* returns err, the adjustment of the weight, and the sleep.
PlayerRun(i, err) ==
    /\ player.n < MaxRuns
    /\ i \in pickEffect(player.effects)
    /\ player' = [player EXCEPT
                     !.effects[i] = adjust(@, err),
                     !.n = @ + 1,
                     !.last = <<i, err>>,
                     !.fails[i] = IF err = "nil" THEN 0 ELSE @ + 1]
    /\ UNCHANGED outsidePlayer

InitPlayer ==
    /\ ClockInit
    /\ impl = <<>>
    /\ hpc = "select1"
    /\ poppedMsg = NoMsg
    /\ HeapHistInit
    /\ DeviceIdle
    /\ NewIDSetProducer
    /\ BrokerIdle
    /\ NoEffect
    /\ NoShuffle
    /\ NoNonrandom
    /\ NoStorm
    /\ NoWeightedSet
    /\ NoLoop
    /\ NoClients
    /\ NoLeaseNew
    /\ \E w \in PlayerWeights :
          player = [effects |-> [i \in 1..Len(w) |->
                                    [baseWeight |-> w[i], weight |-> w[i]]],
                    n |-> 0, last |-> <<>>,
                    fails |-> [i \in 1..Len(w) |-> 0]]

NextPlayer ==
    \E i \in 1..Len(player.effects), err \in {"nil", "error"} : PlayerRun(i, err)

SpecPlayer == InitPlayer /\ [][NextPlayer]_vars

\* C30: a pass of the Player loop sets the weight of the effect it launched
\* to its baseWeight when the launch returned no error and adds exactly 1
\* to it when it returned an error, and changes no baseWeight and no other
\* effect's weight; an effect whose last k >= 0 launches failed has the
\* weight baseWeight + k.
C30_WeightFollowsFailures ==
    /\ [][player'.n # player.n =>
              LET i == player'.last[1]
              IN /\ DOMAIN player'.effects = DOMAIN player.effects
                 /\ \A j \in DOMAIN player.effects :
                       /\ player'.effects[j].baseWeight
                              = player.effects[j].baseWeight
                       /\ player'.effects[j].weight
                              = IF j # i THEN player.effects[j].weight
                                ELSE IF player'.last[2] = "nil"
                                THEN player.effects[j].baseWeight
                                ELSE player.effects[j].weight + 1]_vars
    /\ [](\A j \in DOMAIN player.effects :
             player.effects[j].weight
                 = player.effects[j].baseWeight + player.fails[j])

\* An effect has failed twice in a row since its last successful launch,
\* another effect has been launched in between, and the first weighs its
\* baseWeight + 2.
C30_Witness ==
    /\ player.n = MaxRuns
    /\ Len(player.effects) > 1
    /\ player.fails[1] = 2
    /\ player.effects[1].weight = player.effects[1].baseWeight + 2
    /\ player.fails[2] = 0
    /\ player.effects[2].weight = player.effects[2].baseWeight
    /\ player.last = <<2, "nil">>

\* ------------------------------------------------------------------------
\* Lease broker: the leased map (C32).

\* C32: every ID the broker knows has an entry in leased, which is true
\* exactly while the ID is assigned to a holder and false exactly while
\* the ID is in unallocated.
C32_LeasedIffAssigned ==
    fatal = "" =>
        \A id \in broker.locations :
            /\ id \in DOMAIN broker.leased
            /\ broker.leased[id] <=> id \notin Range(broker.unallocated)

\* ------------------------------------------------------------------------
\* WeightedSet (package weightedset).  Weights, sums and picks are
\* floating-point numbers: here floats with a mantissa of MantissaBits bits,
\* written as the integer number of units they hold, every operation
\* rounded to the nearest float, a tie to the even mantissa.  The randomizer
\* returns k / 2^MantissaBits, the floats of [0, 1) that rand.Float64
\* returns.

MaxItems == 3

MantissaBits == 3

Radix == 2 ^ MantissaBits

\* The weights items are added with: floats.
Weights == {0, 1, 2, 6, 10}

\* What the randomizer returns, times Radix: 0, a half and the largest
\* float below 1.
Randoms == {0, Radix \div 2, Radix - 1}

\* The distance between the floats around n.
RECURSIVE quantum(_)
quantum(n) == IF n < Radix THEN 1 ELSE 2 * quantum(n \div 2)

\* The float nearest to n.
fl(n) ==
    LET q  == quantum(n)
        lo == (n \div q) * q
    IN  IF 2 * (n - lo) < q THEN lo
        ELSE IF 2 * (n - lo) > q THEN lo + q
        ELSE IF (lo \div q) % 2 = 0 THEN lo ELSE lo + q

\* slices.SortStableFunc by decreasing weight: wm goes behind the members
\* that do not weigh less.
RECURSIVE sortStable(_)
sortStable(s) ==
    IF s = <<>> THEN <<>>
    ELSE LET rest == sortStable(SubSeq(s, 1, Len(s) - 1))
             wm   == s[Len(s)]
             k    == Cardinality({i \in 1..Len(rest) : rest[i].weight >= wm.weight})
         IN  SubSeq(rest, 1, k) \o <<wm>> \o SubSeq(rest, k + 1, Len(rest))

\* The running sum of the inner loop of Slice after idx members.
RECURSIVE running(_, _)
running(unchosen, idx) ==
    IF idx = 0 THEN 0 ELSE fl(running(unchosen, idx - 1) + unchosen[idx].weight)

\* The members the inner loop of Slice stops at for a pick, counted in
\* units / Radix: those whose running sum is not below the pick.
stopsAt(unchosen, pick) ==
    {idx \in 1..Len(unchosen) : ~(running(unchosen, idx) * Radix < pick)}

\* Everything but the WeightedSet.
outsideSlice == <<clockVars, heapVars, heapHist, devVars, devHist, idSetVars,
                  idSetHist, leaseConf, leaseVars, leaseHistVars, drainVars,
                  soundVars, data, leaseNew, player,
                   storm,
                   nonrandom,
                   shuffle>>

\* WeightedSet.Add of the next item; zero counts the calls with weight 0.
WSAdd(item, weight) ==
    /\ ws.pc = "new"
    /\ item = Len(ws.members) + ws.zero + 1
    /\ item <= MaxItems
    /\ ws' = IF weight = 0 THEN [ws EXCEPT !.zero = @ + 1]
             ELSE [ws EXCEPT !.members = Append(@, [member |-> item, weight |-> weight]),
                             !.sum = fl(@ + weight)]
    /\ UNCHANGED outsideSlice

\* WeightedSet.Slice up to its loop.
SliceStart ==
    /\ ws.pc = "new"
    /\ ws' = [ws EXCEPT !.pc = IF ws.members = <<>> THEN "done" ELSE "loop",
                        !.unchosen = sortStable(ws.members),
                        !.chosen = <<>>,
                        !.left = ws.sum]
    /\ UNCHANGED outsideSlice

\* One pass of the outer loop of Slice, the randomizer returning k / Radix.
\* draws is the number of passes made, modulo 2.
SlicePick(k) ==
    /\ ws.pc = "loop"
    /\ LET pick == fl(k * ws.left)
           at   == stopsAt(ws.unchosen, pick)
           idx  == CHOOSE i \in at : \A j \in at : i <= j
       IN  ws' = IF at = {}
                 THEN [ws EXCEPT !.draws = (@ + 1) % 2]
                 ELSE [ws EXCEPT
                          !.left = fl(@ - ws.unchosen[idx].weight),
                          !.chosen = Append(@, ws.unchosen[idx].member),
                          !.unchosen = SubSeq(@, 1, idx - 1)
                                           \o SubSeq(@, idx + 1, Len(@)),
                          !.pc = IF Len(ws.unchosen) = 1 THEN "done" ELSE "loop",
                          !.draws = (@ + 1) % 2]
    /\ UNCHANGED outsideSlice

InitSlice ==
    /\ ClockInit
    /\ impl = <<>>
    /\ hpc = "select1"
    /\ poppedMsg = NoMsg
    /\ HeapHistInit
    /\ DeviceIdle
    /\ NewIDSetProducer
    /\ BrokerIdle
    /\ NoEffect
    /\ AppIdle

NextSlice ==
    \/ \E item \in 1..MaxItems, weight \in Weights : WSAdd(item, weight)
    \/ SliceStart
    \/ \E k \in Randoms : SlicePick(k)

SpecSlice == InitSlice /\ [][NextSlice]_vars

\* Slice is called in the end, and its loop goes on; the randomizer
\* returns what it likes.
SpecSliceFair ==
    SpecSlice /\ WF_vars(SliceStart) /\ WF_vars(\E k \in Randoms : SlicePick(k))

\* C33: for every sequence of values of the randomizer Slice terminates,
\* and it returns the items added with a positive weight, each once, and
\* nothing else.
C33_SliceIsPermutation ==
    /\ <>(ws.pc = "done")
    /\ [](ws.pc = "done" =>
             /\ Range(ws.chosen) = {ws.members[i].member : i \in 1..Len(ws.members)}
             /\ Len(ws.chosen) = Len(ws.members))

\* ------------------------------------------------------------------------
\* TimedHeap: every item is delivered once (C34).

\* A TimedHeap nobody stops.
NextHeapLive ==
    \/ Tick
    \/ \E o \in Offsets : Add(now + o)
    \/ Ready
    \/ Consume

\* The worker goroutine runs, and the consumer keeps receiving: a select
\* that can send to it again and again does so in the end.  The clock need
\* not advance.
SpecHeapLive ==
    InitHeap /\ [][NextHeapLive]_vars /\ WF_vars(Ready) /\ SF_vars(Consume)

\* The items the worker has, in the heap or popped, that are ready at t.
ReadyAt(t) ==
    {impl[k].msg : k \in {j \in 1..Len(impl) : impl[j].earliest <= t}}
        \cup (IF hpc = "select2" /\ poppedMsg.earliest <= t
              THEN {poppedMsg.msg} ELSE {})

\* C34: while nobody calls Stop and the consumer keeps receiving, an item
\* the worker has received is in the heap or popped until it is delivered
\* and is never delivered twice, whether items have equal readyAt or have
\* been pushed back after a lost race; and an item whose readyAt the clock
\* has reached, or had passed when it was added, is delivered, without the
\* clock advancing any further.
C34_DeliveredExactlyOnce ==
    /\ [](/\ Held \cup DeliveredMsgs = 1..nAdded
          /\ Held \cap DeliveredMsgs = {}
          /\ Cardinality(DeliveredMsgs) = Len(delivered)
          /\ Cardinality(Held) = Len(impl) + (IF hpc = "select2" THEN 1 ELSE 0))
    /\ \A m \in 1..MaxAdds : (m \in ReadyAt(now)) ~> (m \in DeliveredMsgs)

\* Three items have been delivered before the clock has advanced at all:
\* one was added with a readyAt in the past, two have the same readyAt, and
\* one was pushed back when an Add won the race against the consumer.
C34_Witness ==
    /\ ticks = 0
    /\ Len(delivered) = 3
    /\ races # {}
    /\ \E i, j, k \in 1..Len(delivered) :
          /\ delivered[i].earliest < now
          /\ j # k
          /\ delivered[j].earliest = delivered[k].earliest

\* ------------------------------------------------------------------------
\* The sound effect "storm".  Times are in milliseconds.

qThresh == 1500

sleepTime == 1000

\* The snapshots of the effect's IDSet, the time its ctx leaves, the
\* durations of the files of its filesets and the delays getParams returns.
StormSnapshots == {<<>>, <<"a">>, <<"a", "b">>}

StormLifetimes == {1500, 2500}

StormFiles == {400, 2000}

StormDelays == {0, 100}

outsideStorm == <<ticks, heapVars, heapHist, devVars, devHist, idSetVars,
                  idSetHist, leaseConf, leaseVars, leaseHistVars, drainVars,
                  soundVars, data, leaseNew, player, ws,
                   nonrandom,
                   shuffle>>

\* The loop condition holds: getParams, and ids.Snapshot().
StormTick(delay, snapshot) ==
    /\ storm.pc = "top"
    /\ now < storm.deadline
    /\ storm' = [storm EXCEPT !.pc = IF snapshot = <<>> THEN "sleep" ELSE "refill",
                              !.snapshot = snapshot,
                              !.i = 1,
                              !.delay = delay]
    /\ UNCHANGED <<now, outsideStorm>>

\* ctx.Err() is not nil.
StormExit ==
    /\ storm.pc = "top"
    /\ now >= storm.deadline
    /\ storm' = [storm EXCEPT !.pc = "returned"]
    /\ UNCHANGED <<now, outsideStorm>>

\* The test of the refill loop for device c = snapshot[i]: a Play of a
\* picked file is enqueued FromEnd on c, or the loop over the snapshot goes
\* on.  n is the number of Plays enqueued, modulo 2.
StormRefill(file) ==
    /\ storm.pc = "refill"
    /\ LET c   == storm.snapshot[storm.i]
           cmd == [kind |-> "Play", dur |-> file]
       IN  IF storm.stamps[c]["endOfSound"] - now < qThresh
           THEN storm' = [storm EXCEPT
                             !.stamps[c] = EnqueueStamps(@, cmd, storm.delay,
                                                         "FromEnd", now),
                             !.last = <<c, EnqueueMsg(storm.stamps[c], "effect", cmd,
                                                      storm.delay, "FromEnd",
                                                      now).earliest, file>>,
                             !.n = (@ + 1) % 2]
           ELSE storm' = [storm EXCEPT
                             !.pc = IF storm.i = Len(storm.snapshot)
                                    THEN "sleep" ELSE "refill",
                             !.i = @ + 1]
    /\ UNCHANGED <<now, outsideStorm>>

\* time.Sleep(time.Second)
StormSleep ==
    /\ storm.pc = "sleep"
    /\ now' = now + sleepTime
    /\ storm' = [storm EXCEPT !.pc = "top"]
    /\ UNCHANGED outsideStorm

InitStorm ==
    /\ ClockInit
    /\ impl = <<>>
    /\ hpc = "select1"
    /\ poppedMsg = NoMsg
    /\ HeapHistInit
    /\ DeviceIdle
    /\ NewIDSetProducer
    /\ BrokerIdle
    /\ NoEffect
    /\ NoShuffle
    /\ NoNonrandom
    /\ NoWeightedSet
    /\ NoPlayer
    /\ NoLeaseNew
    /\ NoLoop
    /\ NoClients
    /\ \E life \in StormLifetimes :
          storm = [pc |-> "top", deadline |-> now + life, snapshot |-> <<>>,
                   i |-> 0, delay |-> 0,
                   stamps |-> [id \in IDs |-> [x \in StampNames |-> 0]],
                   last |-> <<>>, n |-> 0]

NextStorm ==
    \/ \E delay \in StormDelays, snapshot \in StormSnapshots : StormTick(delay, snapshot)
    \/ StormExit
    \/ \E file \in StormFiles : StormRefill(file)
    \/ StormSleep

SpecStorm == InitStorm /\ [][NextStorm]_vars

\* The goroutine of the effect runs on.
SpecStormFair == SpecStorm /\ WF_vars(NextStorm)

\* C35: every Play the refill loop enqueues moves the device's endOfSound
\* forward, and the refill loop of every device of the snapshot ends: the
\* algorithm gets to the next device or to the sleep before the next tick.
C35_RefillTerminates ==
    /\ [][\A c \in IDs :
             storm'.stamps[c] # storm.stamps[c] \/ (storm'.n # storm.n /\ storm'.last[1] = c)
                 => storm'.stamps[c]["endOfSound"] > storm.stamps[c]["endOfSound"]]_vars
    /\ \A k \in 1..Cardinality(IDs) :
          (storm.pc = "refill" /\ storm.i = k)
              ~> ~(storm.pc = "refill" /\ storm.i = k)

\* ------------------------------------------------------------------------
\* The sound effect "nonrandom".  A file is <<Folder, File>>.

NonrandomFiles == {<<1, 1>>, <<1, 2>>, <<2, 1>>, <<2, 2>>}

MaxFiles == 4

\* The slices fs.Main.Set() can return: distinct files in any order.
NonrandomSets ==
    UNION {{q \in [1..n -> NonrandomFiles] : \A i, j \in 1..n : q[i] = q[j] => i = j} :
           n \in 0..MaxFiles}

\* The less function given to sort.Slice.
less(a, b) ==
    IF a[1] < b[1] THEN TRUE ELSE a[2] < b[2]

\* sort.Slice on a slice shorter than 12: the insertion sort of package
\* sort, "for i := a + 1; i < b; i++ { for j := i; j > a &&
\* less(j, j-1); j-- { swap(j, j-1) } }".  sink is the inner loop.
RECURSIVE sink(_, _)
sink(q, j) ==
    IF j > 1 /\ less(q[j], q[j - 1])
    THEN sink([q EXCEPT ![j] = q[j - 1], ![j - 1] = q[j]], j - 1)
    ELSE q

RECURSIVE insertionSort(_, _)
insertionSort(q, i) ==
    IF i > Len(q) THEN q ELSE insertionSort(sink(q, i), i + 1)

outsideSort == <<clockVars, heapVars, heapHist, devVars, devHist, idSetVars,
                 idSetHist, leaseConf, leaseVars, leaseHistVars, drainVars,
                 soundVars, data, leaseNew, player, ws, storm,
                   shuffle>>

\* nonrandom.Run up to its loop.
NonrandomSort ==
    /\ nonrandom.pc = "sort"
    /\ nonrandom' = [nonrandom EXCEPT
                        !.set = insertionSort(@, 2),
                        !.pc = IF nonrandom.set = <<>> THEN "returned" ELSE "loop"]
    /\ UNCHANGED outsideSort

\* One pass of the loop: the Play of the next file is enqueued, and the
\* sleep ends.
NonrandomPlay ==
    /\ nonrandom.pc = "loop"
    /\ LET f == nonrandom.set[Len(nonrandom.enqueued) + 1]
       IN  nonrandom' = [nonrandom EXCEPT
                            !.enqueued = Append(@, f),
                            !.pc = IF Len(nonrandom.enqueued) + 1 = Len(nonrandom.set)
                                   THEN "returned" ELSE "loop"]
    /\ UNCHANGED outsideSort

InitNonrandom ==
    /\ ClockInit
    /\ impl = <<>>
    /\ hpc = "select1"
    /\ poppedMsg = NoMsg
    /\ HeapHistInit
    /\ DeviceIdle
    /\ NewIDSetProducer
    /\ BrokerIdle
    /\ NoEffect
    /\ NoShuffle
    /\ NoStorm
    /\ NoWeightedSet
    /\ NoPlayer
    /\ NoLeaseNew
    /\ NoLoop
    /\ NoClients
    /\ \E set \in NonrandomSets :
          nonrandom = [pc |-> "sort", set |-> set, enqueued |-> <<>>]

NextNonrandom == NonrandomSort \/ NonrandomPlay

SpecNonrandom == InitNonrandom /\ [][NextNonrandom]_vars

\* <<Folder, File>> of a before that of b, lexicographically.
Lex(a, b) == a[1] < b[1] \/ (a[1] = b[1] /\ a[2] < b[2])

\* C36: the comparison nonrandom sorts with is a strict order that agrees
\* with the lexicographic order of (Folder, File) on every two files of the
\* set, and the files are enqueued in ascending lexicographic order.
C36_EnqueuedInLexOrder ==
    /\ \A i, j \in 1..Len(nonrandom.set) :
          /\ less(nonrandom.set[i], nonrandom.set[j])
                 <=> Lex(nonrandom.set[i], nonrandom.set[j])
          /\ ~(less(nonrandom.set[i], nonrandom.set[j])
                 /\ less(nonrandom.set[j], nonrandom.set[i]))
    /\ \A i, j \in 1..Len(nonrandom.enqueued) :
          i < j => Lex(nonrandom.enqueued[i], nonrandom.enqueued[j])

\* ------------------------------------------------------------------------
\* The sound effect "shuffle" under Effect.run.  The effect's idSet is the
\* one of the idSet section; shuffle.Run makes Launch call 1 on it.

\* The lists of IDs the holder hands to Add: the broker assigns an ID that
\* it holds as unallocated.
ShuffleArgs == {<<"a">>, <<"b">>, <<"a", "b">>}

\* A Remove that leaves the IDs in the set.
removeNone(s, args) == [ids |-> s, found |-> TRUE]

\* idSet.Remove, its loop: each ID of args is deleted from is.ids where it
\* first occurs; found is false when one of them is not there.
RECURSIVE removeEach(_, _)
removeEach(s, args) ==
    IF args = <<>>
    THEN [ids |-> s, found |-> TRUE]
    ELSE LET at == {idx \in 1..Len(s) : s[idx] = Head(args)}
         IN  IF at = {}
             THEN [ids |-> s, found |-> FALSE]
             ELSE LET idx == CHOOSE i \in at : \A k \in at : i <= k
                  IN  removeEach(SubSeq(s, 1, idx - 1) \o SubSeq(s, idx + 1, Len(s)),
                                 Tail(args))

outsideShuffle == <<clockVars, heapVars, heapHist, devVars, devHist,
                    leaseConf, leaseVars, leaseHistVars, drainVars,
                    soundVars, data, leaseNew, player, ws, storm, nonrandom>>

\* holder.addClients: h.is.Add(clients), with IDs that are not in the set.
ShuffleAdd(arg) ==
    /\ shuffle.pc # "panic"
    /\ \A i \in 1..Len(arg) : arg[i] \notin Range(ids)
    /\ IDSetAdd(arg)

\* A goroutine f(id): l.Run returns, and "ids.Close()".
FClose(id) ==
    /\ shuffle.pc # "panic"
    /\ shuffle.looped[id] < fStarted[1][id]
    /\ clientMuFree
    /\ closed' = TRUE
    /\ chClosed' = CloseChannels
    /\ shuffle' = [shuffle EXCEPT !.looped[id] = @ + 1]
    /\ UNCHANGED <<ids, listeners, sending, launch, ctxCancelled, closers>>
    /\ UNCHANGED <<idSetHist, outsideShuffle>>

\* A goroutine f(id): effect.DrainQueue(types.Sound, []types.ID{id}) gets
\* the ack of the device and passes id to lease.ReturnClients.
FDrainQueue(id) ==
    /\ shuffle.pc # "panic"
    /\ shuffle.byF[id] < shuffle.looped[id]
    /\ shuffle' = [shuffle EXCEPT !.byF[id] = @ + 1]
    /\ UNCHANGED <<idSetVars, idSetHist, outsideShuffle>>

\* shuffle.Run after Launch has returned: "ids.Snapshot()".
ShuffleSnapshot ==
    /\ shuffle.pc = "launch"
    /\ launch[1].pc = "returned"
    /\ clientMuFree
    /\ shuffle' = [shuffle EXCEPT !.pc = "remove", !.snap = snapshotLocked(ids)]
    /\ UNCHANGED <<idSetVars, idSetHist, outsideShuffle>>

\* shuffle.Run: "ids.Remove(...)", which panics on a set that is not closed
\* and on an ID that it does not find.
ShuffleRemove ==
    /\ shuffle.pc = "remove"
    /\ clientMuFree
    /\ LET r == removeEach(ids, shuffle.snap)
       IN  IF ~closed
           THEN /\ shuffle' = [shuffle EXCEPT !.pc = "panic"]
                /\ UNCHANGED ids
           ELSE /\ ids' = r.ids
                /\ shuffle' = [shuffle EXCEPT
                                  !.pc = IF r.found THEN "wait" ELSE "panic",
                                  !.snap = <<>>]
    /\ UNCHANGED <<closed, listeners, chClosed, sending, launch, ctxCancelled,
                   closers>>
    /\ UNCHANGED <<idSetHist, outsideShuffle>>

\* shuffle.Run: "<-ctx.Done()" and the return; Effect.run: "cancel()".
ShuffleReturn ==
    /\ shuffle.pc = "wait"
    /\ 1 \in ctxCancelled
    /\ shuffle' = [shuffle EXCEPT !.pc = "close"]
    /\ UNCHANGED <<idSetVars, idSetHist, outsideShuffle>>

\* Effect.run: "is.Close()".
RunClose ==
    /\ shuffle.pc = "close"
    /\ clientMuFree
    /\ closed' = TRUE
    /\ chClosed' = CloseChannels
    /\ shuffle' = [shuffle EXCEPT !.pc = "drain"]
    /\ UNCHANGED <<ids, listeners, sending, launch, ctxCancelled, closers>>
    /\ UNCHANGED <<idSetHist, outsideShuffle>>

\* Effect.run: "DrainQueue(e.leaseType, is.Snapshot())", which passes every
\* ID of the snapshot to lease.ReturnClients.
RunDrainQueue ==
    /\ shuffle.pc = "drain"
    /\ clientMuFree
    /\ shuffle' = [shuffle EXCEPT !.pc = "done", !.byRun = Counts(snapshotLocked(ids))]
    /\ UNCHANGED <<idSetVars, idSetHist, outsideShuffle>>

InitShuffle ==
    /\ ClockInit
    /\ impl = <<>>
    /\ hpc = "select1"
    /\ poppedMsg = NoMsg
    /\ HeapHistInit
    /\ DeviceIdle
    /\ NewIDSetProducer
    /\ BrokerIdle
    /\ NoEffect
    /\ NoNonrandom
    /\ NoStorm
    /\ NoWeightedSet
    /\ NoPlayer
    /\ NoLeaseNew
    /\ NoLoop
    /\ NoClients
    /\ shuffle = [pc |-> "launch", snap |-> <<>>,
                  looped |-> [id \in IDs |-> 0],
                  byF |-> [id \in IDs |-> 0],
                  byRun |-> [id \in IDs |-> 0]]

NextShuffle ==
    \/ \E arg \in ShuffleArgs : ShuffleAdd(arg)
    \/ IDSetSend
    \/ Launch(1)
    \/ LaunchSnapshot(1)
    \/ LaunchChClosed(1)
    \/ LaunchCtxDone(1)
    \/ CancelLaunch(1)
    \/ IDSetCloseAsync
    \/ \E id \in IDs : FClose(id)
    \/ \E id \in IDs : FDrainQueue(id)
    \/ ShuffleSnapshot
    \/ ShuffleRemove
    \/ ShuffleReturn
    \/ RunClose
    \/ RunDrainQueue

SpecShuffle == InitShuffle /\ [][NextShuffle]_vars

\* The goroutines run on; ctx has a timeout, at which l.Run returns if it
\* has not before; the devices ack their drains.  Launch call 1 is the one
\* of shuffle.Run.
SpecShuffleFair ==
    /\ SpecShuffle
    /\ WF_vars(Launch(1))
    /\ WF_vars(LaunchSnapshot(1))
    /\ WF_vars(LaunchChClosed(1))
    /\ WF_vars(LaunchCtxDone(1))
    /\ WF_vars(CancelLaunch(1))
    /\ WF_vars(IDSetSend)
    /\ SF_vars(IDSetCloseAsync)
    /\ \A id \in IDs : SF_vars(FClose(id)) /\ WF_vars(FDrainQueue(id))
    /\ SF_vars(ShuffleSnapshot)
    /\ SF_vars(ShuffleRemove)
    /\ WF_vars(ShuffleReturn)
    /\ SF_vars(RunClose)
    /\ SF_vars(RunDrainQueue)

\* The IDs that Add has accepted into the set.
Accepted(id) == id \in Range(ids) \/ expected[1][id] > 0

\* C31: under shuffle every ID accepted into the set is returned to the
\* broker once, by its f goroutine and not by Effect.run; Remove does not
\* panic; from the return of shuffle.Run on the set is closed and empty, and
\* the snapshot that Effect.run drains is empty.
C31_ShuffleReturnsOnce ==
    /\ [](/\ shuffle.pc # "panic"
          /\ shuffle.pc \in {"wait", "close", "drain", "done"} => closed /\ ids = <<>>
          /\ \A id \in IDs : /\ shuffle.byRun[id] = 0
                             /\ shuffle.byF[id] <= 1
                             /\ shuffle.byF[id] = 1 => Accepted(id))
    /\ \A id \in IDs : Accepted(id) ~> (shuffle.byF[id] = 1)

\* Effect.run has drained; one ID was in the set when Launch took its
\* snapshot, the other came through the channel, and both were returned by
\* their goroutines.
C31_Witness ==
    /\ shuffle.pc = "done"
    /\ \A id \in IDs : shuffle.byF[id] = 1
    /\ launch[1].nSnap = 1

\* ------------------------------------------------------------------------
\* Lease broker: one assignment at a time (C37).

\* How often id occurs in the list s.
Occurrences(s, id) == Cardinality({i \in 1..Len(s) : s[i] = id})

\* Holder h has id in an IDSet that is open.
OpenWith(bk, h, id) ==
    /\ ~bk.holders[h].is.nil
    /\ ~bk.holders[h].is.closed
    /\ id \in Range(bk.holders[h].is.ids)

\* The assignments id is under: the holders that have it in an open IDSet
\* and the effects that have closed their IDSet and have still to return it.
HoldersOf(id) == {h \in Holders : OpenWith(broker, h, id)}

DrainersOf(id) == {e \in BagToSet(effects) : e.phase = "draining" /\ id \in Range(e.ids)}

\* C37: where every add and every return is sent once, an ID is under at
\* most one assignment and is not in unallocated then; unallocated never
\* has an ID twice; and the broker gives an ID to a holder only if the ID
\* was in unallocated, is new, or came back from a draining effect in the
\* same handler.
C37_OneAssignmentAtATime ==
    /\ [](fatal = "" =>
            \A id \in broker.locations :
                /\ Occurrences(broker.unallocated, id) <= 1
                /\ Cardinality(HoldersOf(id)) + Cardinality(DrainersOf(id))
                       + Occurrences(broker.unallocated, id) = 1
                /\ \A h \in HoldersOf(id) : Occurrences(broker.holders[h].is.ids, id) = 1
                /\ \A e \in DrainersOf(id) : /\ CopiesIn(e, effects) = 1
                                             /\ Occurrences(e.ids, id) = 1)
    /\ [][\A id \in broker'.locations, h \in Holders :
             (fatal' = "" /\ OpenWith(broker', h, id) /\ ~OpenWith(broker, h, id)) =>
                 \/ id \in Range(broker.unallocated)
                 \/ id \notin broker.locations
                 \/ \E e \in DrainersOf(id) : CopiesIn(e, effects') = 0]_vars

\* An ID that was leased and came back through returnClients is in
\* unallocated while a holder has another ID in its open set.
C37_Witness ==
    /\ fatal = ""
    /\ \E id \in DOMAIN broker.leased : broker.leased[id] /\ id \in Range(broker.unallocated)
    /\ \E id \in broker.locations : HoldersOf(id) # {}

\* ------------------------------------------------------------------------
\* Lease broker: leasedFraction and the holders' fractions (C38).

\* C38: after every broker message leasedFraction is the sum of the
\* holders' targetFraction.
C38_LeasedFractionIsSum ==
    fatal = "" => broker.leasedFraction = FractionsFrom(broker, 1)

\* ------------------------------------------------------------------------
\* Lease broker: the runs of one holder's effect (C39).

\* The runs of holder h's effect that are in progress: the algorithm runs
\* on the holder's IDSet, or DrainQueue has still to return clients.
RunsInProgress(h) ==
    {e \in BagToSet(effects) : e.h = h /\ (e.phase = "running" \/ e.ids # <<>>)}

\* C39: at most one run of a holder's effect is in progress at any time;
\* Holder.Run is not called while an earlier run of the same holder has
\* clients to return.
C39_OneRunPerEffect ==
    fatal = "" =>
        \A h \in Holders :
            /\ Cardinality(RunsInProgress(h)) <= 1
            /\ \A e \in RunsInProgress(h) : CopiesIn(e, effects) = 1

\* ------------------------------------------------------------------------
\* Lease broker: clients of a holder that has not been run (C40).

\* Every algorithm returns (its ctx has a timeout), every device acks its
\* drain, and time passes.  Clients arrive as long as they like.
SpecLeasePartFair ==
    /\ SpecLeasePart
    /\ WF_vars(\E e \in BagToSet(effects) : EffectClose(e))
    /\ WF_vars(\E e \in BagToSet(effects) : EffectReturn(e, 1..Len(e.ids)))
    /\ WF_vars(LeaseTick)

\* Holder h has clients in its IDSet and Holder.Run has not been called on
\* that set.
HoldsUnrun(h) ==
    /\ fatal = ""
    /\ ~broker.holders[h].is.nil
    /\ broker.holders[h].is.ids # <<>>
    /\ ~broker.holders[h].started

\* C40: a holder that has been given clients gets started: no holder keeps
\* clients for ever in an IDSet that Holder.Run is never called on, when
\* arrivals have stopped and the effects have returned their clients.
C40_GivenClientsGetsStarted ==
    \A h \in 1..Len(PartOfFleet) : HoldsUnrun(h) ~> ~HoldsUnrun(h)

====
